---- MODULE Spec2Model ----
(***************************************************************************)
(* Notification admission control of the note-taking assistant:            *)
(* NotificationManager (agents/notification_manager.py) as a state         *)
(* machine.  One manager serves one user; its state is the dictionary      *)
(* self.state, mirrored in the Firestore document                          *)
(* users/{uid}/notification_state/current.                                  *)
(*                                                                         *)
(* Time is the server's naive local clock, datetime.now(), in whole        *)
(* seconds since 00:00:00 of day 0.  One call of a method reads the clock   *)
(* at one instant.                                                          *)
(***************************************************************************)
EXTENDS Integers, Sequences, FiniteSets, TLC

VARIABLES
    now,        \* datetime.now(): seconds since day 0, 00:00:00
    state,      \* NotificationManager.state (in memory)
    persisted,  \* the Firestore document notification_state/current
    pending,    \* <<insight>> admitted by should_send_now, not yet recorded; <<>> otherwise
    store_ok,   \* whether state_ref.set succeeds while this manager lives
    last,       \* the last step: the method called, its argument and what it returned
    recorded,   \* every send recorded so far, oldest first: the entry and its instant
    run,        \* the monitor or cleanup cycle each thread is running, and where it stands
    store,      \* per user, the document notification_state/current: <<>> when missing
    loop,       \* MonitorService._monitor_loop: its position, and the requests served
    sendlog,    \* per user, every send a cycle recorded, oldest first
    tasks,      \* the collection users/{uid}/tasks of one user, in stream order
    folders,    \* the collection users/{uid}/folders of that user, in stream order
    agent,      \* CleanupAgent.run on that user: its position and its two lists
    insights    \* the insights built on that user's tasks, oldest first

\* the single manager of the first part
mvars == <<state, persisted, pending, last, recorded>>
\* the service of the second part
svars == <<run, store, loop, sendlog>>
\* the task lifecycle of the third part
cvars == <<tasks, folders, agent, insights>>

vars == <<now, state, persisted, pending, store_ok, last, recorded, run, store, loop, sendlog,
          tasks, folders, agent, insights>>

---------------------------------------------------------------------------
(* Policy constants, NotificationManager.__init__ *)

daily_budget == 6
min_gap_minutes == 120
quiet_hours_start == 22
quiet_hours_end == 7
history_cap == 50
duplicate_window_hours == 24

---------------------------------------------------------------------------
(* The clock: datetime arithmetic on whole seconds *)

SecondsPerMinute == 60
MinutesPerHour == 60
HoursPerDay == 24
SecondsPerHour == SecondsPerMinute * MinutesPerHour
SecondsPerDay == SecondsPerHour * HoursPerDay

\* datetime(day, hh, mm, ss) as seconds since day 0
At(day, hh, mm, ss) == ((day * HoursPerDay + hh) * MinutesPerHour + mm) * SecondsPerMinute + ss

\* datetime.hour
HourOf(t) == (t \div SecondsPerHour) % HoursPerDay

\* datetime.date().isoformat(): the calendar day, as its index
DateOf(t) == t \div SecondsPerDay

\* datetime.isoformat(): the fields of 'YYYY-MM-DDTHH:MM:SS'
isoformat(t) ==
    [date   |-> t \div SecondsPerDay,
     hour   |-> (t \div SecondsPerHour) % HoursPerDay,
     minute |-> (t \div SecondsPerMinute) % MinutesPerHour,
     second |-> t % SecondsPerMinute]

\* datetime.fromisoformat(s).replace(tzinfo=None) of a naive ISO string
fromisoformat(s) ==
    ((s.date * HoursPerDay + s.hour) * MinutesPerHour + s.minute) * SecondsPerMinute + s.second

\* Python's None for last_notification_time; a set value is <<iso string>>
None == <<>>

---------------------------------------------------------------------------
(* Notification state *)

\* the initial_state dictionary of _load_state for a missing document
initial_state(t) ==
    [sent_today             |-> 0,
     last_reset             |-> DateOf(t),
     last_notification_time |-> None,
     notification_history   |-> <<>>]

\* mutant: the rollover also forgets the last send
_reset_daily_counter_forgets(st, t) ==
    LET today == DateOf(t) IN
    IF st.last_reset # today
    THEN [st EXCEPT !.sent_today = 0, !.last_reset = today, !.last_notification_time = None]
    ELSE st

\* mutant: the date is stored and the counter kept
_reset_daily_counter_keep(st, t) ==
    LET today == DateOf(t) IN
    IF st.last_reset # today THEN [st EXCEPT !.last_reset = today] ELSE st

\* mutant: the counter is zeroed on every call
_reset_daily_counter_always(st, t) ==
    [st EXCEPT !.sent_today = 0, !.last_reset = DateOf(t)]

\* _reset_daily_counter: the state it leaves at clock t
_reset_daily_counter(st, t) ==
    LET today == DateOf(t) IN
    IF st.last_reset # today
    THEN [st EXCEPT !.sent_today = 0, !.last_reset = today]
    ELSE st

\* mutant: 22:00 itself is not quiet
InQuietHours_strict(current_hour) ==
    quiet_hours_start < current_hour \/ current_hour < quiet_hours_end

\* Rule 2's test of the hour
InQuietHours(current_hour) ==
    quiet_hours_start <= current_hour \/ current_hour < quiet_hours_end

\* Rule 3's test of the counter
BudgetExhausted(st) == st.sent_today >= daily_budget

\* Rule 4: gap = datetime.now() - last_time, in seconds
GapSeconds(st, t) == t - fromisoformat(st.last_notification_time[1])

min_gap == min_gap_minutes * SecondsPerMinute

\* gap < min_gap
GapTooShort(st, t) ==
    /\ st.last_notification_time # None
    /\ GapSeconds(st, t) < min_gap

\* mutant: the minutes are rounded up
minutes_left_ceil(st, t) ==
    (min_gap - GapSeconds(st, t) + SecondsPerMinute - 1) \div SecondsPerMinute

\* int((min_gap - gap).total_seconds() / 60)
minutes_left(st, t) == (min_gap - GapSeconds(st, t)) \div SecondsPerMinute

\* mutant: an entry exactly 24 h old still counts
_is_duplicate_inclusive(st, t, notification) ==
    LET cutoff_time == t - duplicate_window_hours * SecondsPerHour IN
    \E i \in 1..Len(st.notification_history) :
        LET sent == st.notification_history[i] IN
        /\ fromisoformat(sent.timestamp) >= cutoff_time
        /\ sent.type = notification.type

\* _is_duplicate: a history entry of the same type later than now - 24 h
_is_duplicate(st, t, notification) ==
    LET cutoff_time == t - duplicate_window_hours * SecondsPerHour IN
    \E i \in 1..Len(st.notification_history) :
        LET sent == st.notification_history[i] IN
        /\ fromisoformat(sent.timestamp) > cutoff_time
        /\ sent.type = notification.type

\* The (should_send, reason) pairs should_send_now returns
Answer(send, text, a, b) == [send |-> send, text |-> text, a |-> a, b |-> b]

\* mutant: the budget is tested before the quiet hours
Decide_budget_first(st, t, notification) ==
    LET priority == notification.priority IN
    IF priority = "critical"
    THEN Answer(TRUE, "Critical priority - sending immediately", 0, 0)
    ELSE IF BudgetExhausted(st) /\ priority # "high"
    THEN Answer(FALSE, "Daily budget exhausted", st.sent_today, daily_budget)
    ELSE IF InQuietHours(HourOf(t)) /\ priority # "high"
    THEN Answer(FALSE, "Quiet hours", quiet_hours_start, quiet_hours_end)
    ELSE IF GapTooShort(st, t) /\ priority \notin {"high", "critical"}
    THEN Answer(FALSE, "Too soon", minutes_left(st, t), 0)
    ELSE IF _is_duplicate(st, t, notification)
    THEN Answer(FALSE, "Similar notification sent recently", 0, 0)
    ELSE Answer(TRUE, "All checks passed", 0, 0)

\* mutant: the critical override comes after the quiet hours
Decide_critical_late(st, t, notification) ==
    LET priority == notification.priority IN
    IF InQuietHours(HourOf(t)) /\ priority # "high"
    THEN Answer(FALSE, "Quiet hours", quiet_hours_start, quiet_hours_end)
    ELSE IF priority = "critical"
    THEN Answer(TRUE, "Critical priority - sending immediately", 0, 0)
    ELSE IF BudgetExhausted(st) /\ priority # "high"
    THEN Answer(FALSE, "Daily budget exhausted", st.sent_today, daily_budget)
    ELSE IF GapTooShort(st, t) /\ priority \notin {"high", "critical"}
    THEN Answer(FALSE, "Too soon", minutes_left(st, t), 0)
    ELSE IF _is_duplicate(st, t, notification)
    THEN Answer(FALSE, "Similar notification sent recently", 0, 0)
    ELSE Answer(TRUE, "All checks passed", 0, 0)

\* should_send_now after the rollover, on the state st that step left
Decide(st, t, notification) ==
    LET priority == notification.priority IN
    IF priority = "critical"
    THEN Answer(TRUE, "Critical priority - sending immediately", 0, 0)
    ELSE IF InQuietHours(HourOf(t)) /\ priority # "high"
    THEN Answer(FALSE, "Quiet hours", quiet_hours_start, quiet_hours_end)
    ELSE IF BudgetExhausted(st) /\ priority # "high"
    THEN Answer(FALSE, "Daily budget exhausted", st.sent_today, daily_budget)
    ELSE IF GapTooShort(st, t) /\ priority \notin {"high", "critical"}
    THEN Answer(FALSE, "Too soon", minutes_left(st, t), 0)
    ELSE IF _is_duplicate(st, t, notification)
    THEN Answer(FALSE, "Similar notification sent recently", 0, 0)
    ELSE Answer(TRUE, "All checks passed", 0, 0)

\* should_send_now: rollover first, then the rules
should_send_now(st, t, notification) ==
    Decide(_reset_daily_counter(st, t), t, notification)

\* the history_entry record_sent builds
history_entry(t, notification) ==
    [type      |-> notification.type,
     priority  |-> notification.priority,
     timestamp |-> isoformat(t)]

\* mutant: notification_history[:50], the newest dropped
Truncate_oldest(h) ==
    IF Len(h) > history_cap THEN SubSeq(h, 1, history_cap) ELSE h

\* notification_history[-50:]
Truncate(h) ==
    IF Len(h) > history_cap THEN SubSeq(h, Len(h) - history_cap + 1, Len(h)) ELSE h

\* mutant: the time of the send is not kept
record_sent_counter_only(st, t, notification) ==
    [st EXCEPT
        !.sent_today = @ + 1,
        !.notification_history = Truncate(Append(@, history_entry(t, notification)))]

\* record_sent: the state it leaves at clock t
record_sent(st, t, notification) ==
    [st EXCEPT
        !.sent_today = @ + 1,
        !.last_notification_time = <<isoformat(t)>>,
        !.notification_history = Truncate(Append(@, history_entry(t, notification)))]

\* _save_state: the document after state_ref.set(self.state); a store error is
\* caught and leaves the document as it was
_save_state(doc, st, ok) == IF ok THEN st ELSE doc

---------------------------------------------------------------------------
(* Inputs *)

\* the insights handed to the manager: type and priority
LowFocus == [type |-> "folder_focus_insight", priority |-> "low"]
HighFocus == [type |-> "folder_focus_insight", priority |-> "high"]
MediumStale == [type |-> "stale_task_warning", priority |-> "medium"]
\* the 'critical' notification of Rule 1's comment (deadlines, overdue)
Deadline == [type |-> "deadline_alert", priority |-> "critical"]

Insights == {LowFocus, HighFocus, MediumStale, Deadline}

\* sends the manager may record after its construction
MaxSends == 2
\* the longest the caller takes from a decision to its record_sent
MaxDeliverySeconds == 60
\* critical sends already in the document the manager is constructed on
MaxBulk == 7
BulkSizes == {0} \cup ((daily_budget - 1) .. MaxBulk)

\* the instants the clock visits
Instants ==
    { At(0, 8, 0, 0),   At(0, 8, 30, 0), At(0, 10, 0, 0), At(0, 23, 59, 0),
      At(1, 0, 0, 0),   At(1, 7, 0, 0),  At(1, 8, 0, 0) }
StartInstants == { At(0, 8, 0, 0), At(0, 23, 59, 0) }

NoAnswer == Answer(FALSE, "", 0, 0)
NoCall ==
    [op |-> "none", insight |-> Deadline, answer |-> NoAnswer,
     sends |-> 0, checked |-> -1, repeat |-> FALSE]

\* the document after k admitted critical sends at clock t on a fresh state
RECURSIVE Bulk(_, _)
Bulk(k, t) ==
    IF k = 0 THEN initial_state(t)
    ELSE record_sent(_reset_daily_counter(Bulk(k - 1, t), t), t, Deadline)

\* what those k sends recorded
BulkLog(k, t) == [i \in 1..k |-> [entry |-> history_entry(t, Deadline), at |-> t]]

---------------------------------------------------------------------------
(* The service around the manager: users, threads and their cycles *)

\* MonitorService.monitored_users, in the order the users were added
monitored_users == <<"u1", "u2">>
Users == {"u1", "u2"}

\* where a cycle runs: the hub is the green thread of _monitor_loop, in which
\* CleanupAgent.run is called; w1 and w2 are threads of eventlet.tpool, in
\* which _check_user_sync is executed
Slots == {"hub", "w1", "w2"}
PoolSlots == {"w1", "w2"}

\* the insights the generators of MonitorAgent build, and that of CleanupAgent
PriorityAlert == [type |-> "priority_alert", priority |-> "high"]
ProductivityTip == [type |-> "productivity_tip", priority |-> "low"]
StaleHigh == [type |-> "high_priority_stale_warning", priority |-> "high"]

\* all_insights of MonitorAgent.run is filled in this order
GenerationRank(n) ==
    CASE n.type = "priority_alert" -> 1
      [] n.type = "folder_focus_insight" -> 2
      [] n.type = "productivity_tip" -> 3
      [] n.type = "stale_task_warning" -> 4
      [] OTHER -> 5

\* a thread that runs no cycle
IdleCycle ==
    [pc |-> "idle", kind |-> "monitor", origin |-> "scheduled", user |-> "u1",
     socketio |-> FALSE, state |-> initial_state(0), batch |-> <<>>, i |-> 0,
     trace |-> <<>>]

\* the monitor loop not started
LoopOff ==
    [phase |-> "off", k |-> 0, wait |-> "none", passes |-> 0, triggers |-> 0,
     last_cleanup_date |-> None, today |-> 0, cleanups |-> <<>>,
     running |-> FALSE, greenthreads |-> <<>>, calls |-> 0]

\* the manager alone: no service around it
NoService ==
    /\ run = [s \in Slots |-> IdleCycle]
    /\ store = [u \in Users |-> <<>>]
    /\ loop = LoopOff
    /\ sendlog = [u \in Users |-> <<>>]

\* CleanupAgent.run not entered: cleanup.run(user_id, user_timezone) as the
\* command line and monitor_service.py call it, without a socketio
IdleAgent ==
    [pc |-> "idle", snapshot |-> <<>>, tasks_to_delete |-> <<>>,
     high_priority_stale_tasks |-> <<>>, listed |-> <<>>, i |-> 0,
     deleted_count |-> 0, faults |-> 0,
     failed_tasks |-> {}, failed_insights |-> {}, failed_folders |-> {},
     resolutions |-> <<>>]

\* no tasks and no folders: the parts that do not look at them
NoLifecycle ==
    /\ tasks = <<>>
    /\ folders = <<>>
    /\ agent = IdleAgent
    /\ insights = <<>>

\* mutant: an unreadable document is taken as it stands
_load_state_trusting(doc, readable, t) ==
    IF doc # <<>> THEN doc[1] ELSE initial_state(t)

\* _load_state: the state the constructor starts from; readable is FALSE when
\* state_ref.get() raises
_load_state(doc, readable, t) ==
    IF readable /\ doc # <<>> THEN doc[1] ELSE initial_state(t)

\* the document after _load_state: a missing one is created when the read and
\* the write succeed
_load_state_doc(doc, readable, ok, t) ==
    IF readable /\ doc = <<>> /\ ok THEN <<initial_state(t)>> ELSE doc

\* state_ref.set(self.state) on the store: the whole document is replaced
Put(doc, st, ok) == IF doc = <<>> THEN (IF ok THEN <<st>> ELSE <<>>)
                    ELSE <<_save_state(doc[1], st, ok)>>

---------------------------------------------------------------------------
(* The manager under its caller, MonitorAgent.save_insights_to_firebase *)

\* NotificationManager(user_id) at clock t: _load_state of a document
\* that holds k earlier sends
Construct(t, k) ==
    /\ now = t
    /\ state = Bulk(k, t)
    /\ persisted = state
    /\ pending = <<>>
    /\ store_ok \in BOOLEAN
    /\ last = NoCall
    /\ recorded = BulkLog(k, t)
    /\ NoService
    /\ NoLifecycle

Init == \E t \in StartInstants, k \in BulkSizes : Construct(t, k)

\* the clock moves on.  Between a True decision and its record_sent lie the
\* LLM call and the emit: the caller records within MaxDeliverySeconds or,
\* having failed, not at all.
Advance(t) ==
    /\ t > now
    /\ now' = t
    /\ pending' = IF t - now <= MaxDeliverySeconds THEN pending ELSE <<>>
    /\ last' = [last EXCEPT !.op = "advance", !.insight = Deadline,
                            !.answer = NoAnswer, !.repeat = FALSE]
    /\ UNCHANGED <<state, persisted, store_ok, recorded>>
    /\ UNCHANGED svars
    /\ UNCHANGED cvars

\* should_send, reason = notification_manager.should_send_now(insight)
ShouldSendNow(notification) ==
    LET st == _reset_daily_counter(state, now)
        answer == should_send_now(state, now, notification)
    IN  /\ state' = st
        /\ persisted' = IF st # state THEN _save_state(persisted, st, store_ok)
                                      ELSE persisted
        /\ pending' = IF answer.send THEN <<notification>> ELSE <<>>
        /\ last' = [last EXCEPT !.op = "should_send_now", !.insight = notification,
                                !.answer = answer, !.checked = DateOf(now),
                                !.repeat = (last.checked = DateOf(now))]
        /\ UNCHANGED <<now, store_ok, recorded>>
        /\ UNCHANGED svars
        /\ UNCHANGED cvars

\* notification_manager.record_sent(insight), after a True decision
RecordSent ==
    /\ pending # <<>>
    /\ LET notification == pending[1]
           st == record_sent(state, now, notification)
       IN  /\ state' = st
           /\ persisted' = _save_state(persisted, st, store_ok)
           /\ recorded' = Append(recorded,
                                 [entry |-> history_entry(now, notification), at |-> now])
           /\ last' = [last EXCEPT !.op = "record_sent", !.insight = notification,
                                   !.answer = NoAnswer, !.sends = @ + 1,
                                   !.repeat = FALSE]
    /\ pending' = <<>>
    /\ UNCHANGED <<now, store_ok>>
    /\ UNCHANGED svars
    /\ UNCHANGED cvars

Next ==
    \/ \E t \in Instants : Advance(t)
    \/ \E n \in Insights : ShouldSendNow(n)
    \/ last.sends < MaxSends /\ RecordSent

Spec == Init /\ [][Next]_vars

---------------------------------------------------------------------------
(* should_send_now as a function of the state it finds: every hour of the  *)
(* day, on documents left by earlier sends at chosen distances in the past *)

Hours == 0 .. (HoursPerDay - 1)

\* how long ago the earlier sends were made
Ago ==
    { At(0, 0, 30, 0),  At(0, 0, 30, 30),  At(0, 1, 59, 59), At(0, 2, 0, 0),
      At(0, 2, 5, 0),   At(0, 23, 59, 59), At(1, 0, 0, 0),   At(1, 1, 0, 0) }

\* the manager at clock t on the document left by k critical sends made d1
\* ago and then, when more is TRUE, one admitted send of e made d2 ago
ConstructAfter(t, k, d1, more, e, d2) ==
    LET base == Bulk(k, t - d1)
        t2 == t - d2
    IN  /\ now = t
        /\ d2 <= d1
        /\ more => should_send_now(base, t2, e).send
        /\ state = IF more THEN record_sent(_reset_daily_counter(base, t2), t2, e)
                           ELSE base
        /\ persisted = state
        /\ pending = <<>>
        /\ store_ok \in BOOLEAN
        /\ last = NoCall
        /\ recorded = IF more
                      THEN Append(BulkLog(k, t - d1),
                                  [entry |-> history_entry(t2, e), at |-> t2])
                      ELSE BulkLog(k, t - d1)
        /\ NoService
        /\ NoLifecycle

InitDecide ==
    \E h \in Hours, k \in BulkSizes, d1 \in Ago :
        \/ ConstructAfter(At(2, h, 0, 0), k, d1, FALSE, Deadline, d1)
        \/ \E e \in Insights, d2 \in Ago :
               ConstructAfter(At(2, h, 0, 0), k, d1, TRUE, e, d2)

NextDecide == \E n \in Insights : ShouldSendNow(n)

SpecDecide == InitDecide /\ [][NextDecide]_vars

---------------------------------------------------------------------------
(* A long run of sends: the history cap *)

MaxBurst == 60
BurstInstants == { At(0, 8, 0, 0), At(0, 10, 0, 0) }
BurstInsights == {Deadline, LowFocus}

InitBurst == Construct(At(0, 8, 0, 0), 0)

NextBurst ==
    \/ \E t \in BurstInstants : Advance(t)
    \/ \E n \in BurstInsights : ShouldSendNow(n)
    \/ last.sends < MaxBurst /\ RecordSent

SpecBurst == InitBurst /\ [][NextBurst]_vars

---------------------------------------------------------------------------
(* One night and the day after it: sends around midnight *)

MaxDaySends == 7
DayInstants == { At(0, 23, 59, 0), At(1, 0, 0, 0), At(1, 10, 0, 0) }

InitDay == Construct(At(0, 23, 59, 0), 0)

NextDay ==
    \/ \E t \in DayInstants : Advance(t)
    \/ \E n \in BurstInsights : ShouldSendNow(n)
    \/ last.sends < MaxDaySends /\ RecordSent

SpecDay == InitDay /\ [][NextDay]_vars

---------------------------------------------------------------------------
(* One cycle, step by step: MonitorAgent.run and CleanupAgent.run.  A step  *)
(* is one call the cycle makes; the trace of a cycle lists its calls.       *)

\* one call of a cycle: which call, on which insight of the batch, and what
\* should_send_now answered
Event(op, i, send, text) == [op |-> op, i |-> i, send |-> send, text |-> text]

\* MonitorAgent.run(user_id, user_timezone, socketio) entered
MonitorCycle(u, origin, sock) ==
    [IdleCycle EXCEPT !.pc = "load", !.kind = "monitor", !.origin = origin,
                      !.user = u, !.socketio = sock]

\* CleanupAgent.run(user_id, user_timezone, socketio) entered
CleanupCycle(u, sock) ==
    [IdleCycle EXCEPT !.pc = "fetch", !.kind = "cleanup", !.origin = "scheduled",
                      !.user = u, !.socketio = sock]

NextInsight_unsaved(r) ==
    IF r.i < Len(r.batch) THEN [r EXCEPT !.i = @ + 1, !.pc = "decide"]
                          ELSE [r EXCEPT !.pc = "done"]

\* for insight in insights: the next insight, which is first written to the
\* insights collection, or the end of the cycle
NextInsight(r) ==
    IF r.i < Len(r.batch) THEN [r EXCEPT !.i = @ + 1, !.pc = "save"]
                          ELSE [r EXCEPT !.pc = "done"]

\* mutant: the text is generated whatever the decision
AfterDecision_always(r, answer) == [r EXCEPT !.pc = "llm"]

\* if should_send: ... else: queued for in-app display only
AfterDecision(r, answer) ==
    IF answer.send THEN [r EXCEPT !.pc = "llm"] ELSE NextInsight(r)

\* self.notification_manager = NotificationManager(user_id); readable is
\* FALSE when the read of the document raises
Load(s, readable) ==
    /\ run[s].pc = "load"
    /\ LET r == run[s]
           doc == store[r.user]
       IN  /\ run' = [run EXCEPT ![s] =
                        [r EXCEPT !.state = _load_state(doc, readable, now),
                                  !.pc = "tasks",
                                  !.trace = <<Event("load", 0, readable,
                                                    IF doc = <<>> THEN "missing" ELSE "exists")>>]]
           /\ store' = [store EXCEPT ![r.user] = _load_state_doc(doc, readable, store_ok, now)]
    /\ UNCHANGED <<now, store_ok, loop, sendlog>>
    /\ UNCHANGED mvars
    /\ UNCHANGED cvars

\* tasks = self.get_all_tasks(user_id) and the four generators: b is
\* all_insights, empty when there are no tasks
Tasks(s, b) ==
    /\ run[s].pc = "tasks"
    /\ run' = [run EXCEPT ![s] =
                 IF b = <<>> THEN [@ EXCEPT !.pc = "done"]
                             ELSE [@ EXCEPT !.batch = b, !.i = 1, !.pc = "save"]]
    /\ UNCHANGED <<now, store_ok, store, loop, sendlog>>
    /\ UNCHANGED mvars
    /\ UNCHANGED cvars

\* doc_ref.set({**insight, 'user_id': user_id}): the insight is written for
\* in-app display
Save(s) ==
    /\ run[s].pc = "save"
    /\ run' = [run EXCEPT ![s] =
                 [@ EXCEPT !.trace = Append(@, Event("set", run[s].i, TRUE, "")),
                           !.pc = "decide"]]
    /\ UNCHANGED <<now, store_ok, store, loop, sendlog>>
    /\ UNCHANGED mvars
    /\ UNCHANGED cvars

\* should_send, reason = self.notification_manager.should_send_now(insight)
Evaluate(s) ==
    /\ run[s].pc = "decide"
    /\ LET r == run[s]
           n == r.batch[r.i]
           st == _reset_daily_counter(r.state, now)
           answer == should_send_now(r.state, now, n)
       IN  /\ run' = [run EXCEPT ![s] =
                        AfterDecision([r EXCEPT !.state = st,
                                                !.trace = Append(@, Event("should_send_now", r.i,
                                                                          answer.send, answer.text))],
                                      answer)]
           /\ store' = IF st # r.state
                       THEN [store EXCEPT ![r.user] = Put(@, st, store_ok)]
                       ELSE store
    /\ UNCHANGED <<now, store_ok, loop, sendlog>>
    /\ UNCHANGED mvars
    /\ UNCHANGED cvars

\* notification = self.generate_insight_via_llm(insight), taking d seconds
Llm(s, d) ==
    /\ run[s].pc = "llm"
    /\ now' = now + d
    /\ run' = [run EXCEPT ![s] =
                 [@ EXCEPT !.trace = Append(@, Event("llm", run[s].i, TRUE, "")),
                           !.pc = IF run[s].socketio THEN "emit" ELSE "record"]]
    /\ UNCHANGED <<store_ok, store, loop, sendlog>>
    /\ UNCHANGED mvars
    /\ UNCHANGED cvars

\* socketio.emit('notification', ..., room=user_id)
Emit(s) ==
    /\ run[s].pc = "emit"
    /\ run' = [run EXCEPT ![s] =
                 [@ EXCEPT !.trace = Append(@, Event("emit", run[s].i, TRUE, "")),
                           !.pc = "record"]]
    /\ UNCHANGED <<now, store_ok, store, loop, sendlog>>
    /\ UNCHANGED mvars
    /\ UNCHANGED cvars

\* doc_ref.set or the emit raises: the except of save_insights_to_firebase
\* ends the loop over the insights
Abort(s) ==
    /\ run[s].pc \in {"save", "emit"}
    /\ run' = [run EXCEPT ![s] =
                 [@ EXCEPT !.trace = Append(@, Event("abort", run[s].i, FALSE, "")),
                           !.pc = "done"]]
    /\ UNCHANGED <<now, store_ok, store, loop, sendlog>>
    /\ UNCHANGED mvars
    /\ UNCHANGED cvars

\* self.notification_manager.record_sent(insight)
Record(s) ==
    /\ run[s].pc = "record"
    /\ LET r == run[s]
           n == r.batch[r.i]
           st == record_sent(r.state, now, n)
       IN  /\ run' = [run EXCEPT ![s] =
                        NextInsight([r EXCEPT !.state = st,
                                              !.trace = Append(@, Event("record_sent", r.i, TRUE, ""))])]
           /\ store' = [store EXCEPT ![r.user] = Put(@, st, store_ok)]
           /\ sendlog' = [sendlog EXCEPT ![r.user] =
                            Append(@, [entry |-> history_entry(now, n), at |-> now])]
    /\ UNCHANGED <<now, store_ok, loop>>
    /\ UNCHANGED mvars
    /\ UNCHANGED cvars

\* CleanupAgent.run up to its categorisation: m high priority tasks are
\* overdue or untouched for ten days
Fetch(s, m) ==
    /\ run[s].pc = "fetch"
    /\ run' = [run EXCEPT ![s] =
                 [@ EXCEPT !.batch = [j \in 1..m |-> StaleHigh], !.i = 1,
                           !.pc = IF m = 0 THEN "done" ELSE "escalate"]]
    /\ UNCHANGED <<now, store_ok, store, loop, sendlog>>
    /\ UNCHANGED mvars
    /\ UNCHANGED cvars

\* _generate_high_priority_insight: the insight is stored and, with a
\* socketio, emitted
Escalate(s) ==
    /\ run[s].pc = "escalate"
    /\ LET r == run[s]
           ev == Event(IF r.socketio THEN "emit" ELSE "insight_saved", r.i, TRUE, "")
       IN  run' = [run EXCEPT ![s] =
                     [r EXCEPT !.trace = Append(@, ev),
                               !.i = IF r.i < Len(r.batch) THEN r.i + 1 ELSE r.i,
                               !.pc = IF r.i < Len(r.batch) THEN "escalate" ELSE "done"]]
    /\ UNCHANGED <<now, store_ok, store, loop, sendlog>>
    /\ UNCHANGED mvars
    /\ UNCHANGED cvars

\* one of the four generators raises: MonitorAgent.run has no handler around
\* them, the exception leaves run() and nothing of the cycle's insights is
\* saved or evaluated
GeneratorRaises(s) ==
    /\ run[s].pc = "tasks"
    /\ run' = [run EXCEPT ![s] =
                 [@ EXCEPT !.trace = Append(@, Event("raise", 0, FALSE, "generator")),
                           !.pc = "done"]]
    /\ UNCHANGED <<now, store_ok, store, loop, sendlog>>
    /\ UNCHANGED mvars
    /\ UNCHANGED cvars

\* tasks_ref.stream() raises in _fetch_tasks: the exception leaves
\* CleanupAgent.run
FetchRaises(s) ==
    /\ run[s].pc = "fetch"
    /\ run' = [run EXCEPT ![s] =
                 [@ EXCEPT !.trace = Append(@, Event("raise", 0, FALSE, "fetch")),
                           !.pc = "done"]]
    /\ UNCHANGED <<now, store_ok, store, loop, sendlog>>
    /\ UNCHANGED mvars
    /\ UNCHANGED cvars

\* the cycle of thread s ended by an exception
Raised(s) ==
    /\ run[s].trace # <<>>
    /\ run[s].trace[Len(run[s].trace)].op = "raise"

\* run() returns to a caller that is not the monitor loop: the command line,
\* or the handler of the manual trigger
Return(s) ==
    /\ run[s].pc = "done"
    /\ loop.wait # s
    /\ run' = [run EXCEPT ![s] = IdleCycle]
    /\ UNCHANGED <<now, store_ok, store, loop, sendlog>>
    /\ UNCHANGED mvars
    /\ UNCHANGED cvars

---------------------------------------------------------------------------
(* Cycles run one after the other, as MonitorAgent.run and CleanupAgent.run *)
(* are entered from the command line or by the service                      *)

\* cycles entered in a run
MaxCycles == 1
\* high priority tasks a cleanup cycle escalates
MaxEscalations == 2
\* seconds the text generation takes
LlmSeconds == {1, 40}

\* all_insights: the generators' insights in generation order; the folder
\* insight is generated whenever there are tasks
Batches ==
    { <<LowFocus>>,
      <<PriorityAlert, LowFocus>>,
      <<LowFocus, ProductivityTip>>,
      <<LowFocus, MediumStale>>,
      <<PriorityAlert, LowFocus, ProductivityTip>>,
      <<PriorityAlert, LowFocus, MediumStale>>,
      <<LowFocus, ProductivityTip, MediumStale>>,
      <<PriorityAlert, LowFocus, ProductivityTip, MediumStale>> }

\* when the first cycle starts
CycleStarts == { At(1, 8, 0, 0), At(1, 21, 59, 30), At(1, 23, 59, 30) }
\* sends in the user's document before it, none meaning no document, and
\* how long before
CycleBulk == {0, 1, daily_budget - 1, daily_budget}
CycleAgo == { At(0, 3, 0, 0), At(1, 1, 0, 0) }

\* the variables of the first part, unused
NoManager ==
    /\ state = initial_state(0)
    /\ persisted = state
    /\ pending = <<>>
    /\ last = NoCall
    /\ recorded = <<>>

\* user u1 with k earlier sends made d ago, the other users without document
StoreAfter(k, t) ==
    [u \in Users |-> IF u = "u1" /\ k > 0 THEN <<Bulk(k, t)>> ELSE <<>>]
SendlogAfter(k, t) ==
    [u \in Users |-> IF u = "u1" THEN BulkLog(k, t) ELSE <<>>]

InitCycle ==
    \E t \in CycleStarts, k \in CycleBulk, d \in CycleAgo :
        /\ now = t
        /\ store = StoreAfter(k, t - d)
        /\ sendlog = SendlogAfter(k, t - d)
        /\ run = [s \in Slots |-> IdleCycle]
        /\ loop = LoopOff
        /\ store_ok \in BOOLEAN
        /\ NoManager
        /\ NoLifecycle

AllIdle == \A s \in Slots : run[s].pc = "idle"

\* monitor.run(user_id, user_timezone, socketio): socketio is None from the
\* command line
StartMonitor(sock) ==
    /\ AllIdle
    /\ loop.passes < MaxCycles
    /\ run' = [run EXCEPT !["w1"] = MonitorCycle("u1", "scheduled", sock)]
    /\ loop' = [loop EXCEPT !.passes = @ + 1]
    /\ UNCHANGED <<now, store_ok, store, sendlog>>
    /\ UNCHANGED mvars
    /\ UNCHANGED cvars

\* cleanup.run(user_id, user_timezone, socketio)
StartCleanup(sock) ==
    /\ AllIdle
    /\ loop.passes < MaxCycles
    /\ run' = [run EXCEPT !["hub"] = CleanupCycle("u1", sock)]
    /\ loop' = [loop EXCEPT !.passes = @ + 1]
    /\ UNCHANGED <<now, store_ok, store, sendlog>>
    /\ UNCHANGED mvars
    /\ UNCHANGED cvars

NextCycle ==
    \/ \E sock \in BOOLEAN : StartMonitor(sock)
    \/ \E sock \in BOOLEAN : StartCleanup(sock)
    \/ \E s \in Slots, readable \in BOOLEAN : Load(s, readable)
    \/ \E s \in Slots, b \in Batches \cup {<<>>} : Tasks(s, b)
    \/ \E s \in Slots : Save(s)
    \/ \E s \in Slots : Evaluate(s)
    \/ \E s \in Slots, d \in LlmSeconds : Llm(s, d)
    \/ \E s \in Slots : Emit(s)
    \/ \E s \in Slots : Abort(s)
    \/ \E s \in Slots : Record(s)
    \/ \E s \in Slots, m \in 0..MaxEscalations : Fetch(s, m)
    \/ \E s \in Slots : Escalate(s)
    \/ \E s \in Slots : GeneratorRaises(s)
    \/ \E s \in Slots : FetchRaises(s)
    \/ \E s \in Slots : Return(s)

SpecCycle == InitCycle /\ [][NextCycle]_vars

---------------------------------------------------------------------------
(* The service: MonitorService._monitor_loop and the manual trigger *)

\* MonitorService(check_interval=1800)
check_interval == 1800
\* passes of the monitor loop and requests to /api/monitor/trigger, together
MaxRequests == 2

\* what the generators yield in the service's cycles
ServiceBatches == { <<LowFocus>> }
ServiceLlmSeconds == {1}
\* high priority tasks a cleanup cycle of the service escalates
ServiceEscalations == {0, 1}

\* now.weekday(): Monday is 0 and day 0 is a Monday, so day 6 is a Sunday
DaysPerWeek == 7
weekday(t) == DateOf(t) % DaysPerWeek

\* if now.weekday() == 6 and 20 <= now.hour < 22
cleanup_weekday == 6
cleanup_hour_start == 20
cleanup_hour_end == 22

\* when the service starts: a Tuesday morning; a Saturday evening, the first
\* tick at 20:15; and a Sunday evening, the first tick at 20:15 or at 21:45
ServiceStarts == { At(1, 8, 0, 0), At(5, 19, 45, 0), At(6, 19, 45, 0), At(6, 21, 15, 0) }

\* a thread of the pool that runs nothing
HasFreeSlot == \E s \in PoolSlots : run[s].pc = "idle"
FreeSlot == CHOOSE s \in PoolSlots : run[s].pc = "idle"

\* mutant: the loop goes on without waiting for the call to return
Returned_early(s) == TRUE

\* the call running in s has returned
Returned(s) == run[s].pc = "done"

\* monitor_service.start(): the loop sleeps until users have been added; the
\* store answers every read and write
InitService ==
    /\ now \in ServiceStarts
    /\ store = [u \in Users |-> <<>>]
    /\ sendlog = [u \in Users |-> <<>>]
    /\ run = [s \in Slots |-> IdleCycle]
    /\ loop = [LoopOff EXCEPT !.phase = "sleep", !.running = TRUE]
    /\ store_ok = TRUE
    /\ NoManager
    /\ NoLifecycle

\* _monitor_loop: eventlet.tpool.execute(self._check_user_sync, user_id)
Execute ==
    /\ loop.phase = "users" /\ loop.wait = "none"
    /\ loop.k <= Len(monitored_users)
    /\ HasFreeSlot
    /\ run' = [run EXCEPT ![FreeSlot] =
                 MonitorCycle(monitored_users[loop.k], "scheduled", TRUE)]
    /\ loop' = [loop EXCEPT !.wait = FreeSlot]
    /\ UNCHANGED <<now, store_ok, store, sendlog>>
    /\ UNCHANGED mvars
    /\ UNCHANGED cvars

AfterCleanup_retry(l, failed) ==
    IF failed THEN [l EXCEPT !.phase = "sleep"]
    ELSE [l EXCEPT !.phase = "sleep", !.last_cleanup_date = <<l.today>>]

\* self.last_cleanup_date = today, after _run_cleanup has returned: failed is
\* TRUE when it returned by its exception handler
AfterCleanup(l, failed) ==
    [l EXCEPT !.phase = "sleep", !.last_cleanup_date = <<l.today>>]

\* the call made for the user at hand returns and the loop takes the next;
\* an exception of cleanup.run is caught around the whole loop of _run_cleanup
\* and ends the cleanup of the pass
Resume ==
    /\ loop.phase \in {"users", "cleanup"}
    /\ loop.wait # "none"
    /\ Returned(loop.wait)
    /\ loop' = IF loop.phase = "cleanup" /\ Raised(loop.wait)
               THEN AfterCleanup([loop EXCEPT !.wait = "none"], TRUE)
               ELSE [loop EXCEPT !.wait = "none", !.k = @ + 1]
    /\ run' = IF run[loop.wait].pc = "done" THEN [run EXCEPT ![loop.wait] = IdleCycle]
                                            ELSE run
    /\ UNCHANGED <<now, store_ok, store, sendlog>>
    /\ UNCHANGED mvars
    /\ UNCHANGED cvars

\* the test of _check_cleanup_schedule at clock t
CleanupDue(l, t) ==
    /\ weekday(t) = cleanup_weekday
    /\ cleanup_hour_start <= HourOf(t) /\ HourOf(t) < cleanup_hour_end
    /\ l.last_cleanup_date # <<DateOf(t)>>

\* _check_cleanup_schedule after the users: due on Sunday from 20:00 to 22:00,
\* once a day; cleanups lists the instants at which _run_cleanup was called
CheckCleanupSchedule ==
    /\ loop.phase = "users" /\ loop.wait = "none"
    /\ loop.k > Len(monitored_users)
    /\ loop' = IF CleanupDue(loop, now)
               THEN [loop EXCEPT !.phase = "cleanup", !.k = 1, !.today = DateOf(now),
                                 !.cleanups = Append(@, now)]
               ELSE [loop EXCEPT !.phase = "sleep", !.k = 1]
    /\ UNCHANGED <<now, store_ok, store, sendlog, run>>
    /\ UNCHANGED mvars
    /\ UNCHANGED cvars

\* _run_cleanup: CleanupAgent(...) and cleanup.run(...) for the next user, in
\* the loop's own thread; constructed is FALSE when the constructor raises,
\* which ends the pass
RunCleanup(constructed) ==
    /\ loop.phase = "cleanup" /\ loop.wait = "none"
    /\ loop.k <= Len(monitored_users)
    /\ run["hub"].pc = "idle"
    /\ IF constructed
       THEN /\ run' = [run EXCEPT !["hub"] = CleanupCycle(monitored_users[loop.k], TRUE)]
            /\ loop' = [loop EXCEPT !.wait = "hub"]
       ELSE /\ run' = run
            /\ loop' = AfterCleanup(loop, TRUE)
    /\ UNCHANGED <<now, store_ok, store, sendlog>>
    /\ UNCHANGED mvars
    /\ UNCHANGED cvars

\* _run_cleanup has gone through the users
CleanupDone ==
    /\ loop.phase = "cleanup" /\ loop.wait = "none"
    /\ loop.k > Len(monitored_users)
    /\ loop' = AfterCleanup(loop, FALSE)
    /\ UNCHANGED <<now, store_ok, store, sendlog, run>>
    /\ UNCHANGED mvars
    /\ UNCHANGED cvars

\* the loop has slept, check_interval seconds after a pass, and starts a pass
Sleep ==
    /\ loop.phase = "sleep"
    /\ loop.passes + loop.triggers < MaxRequests
    /\ now' = now + check_interval
    /\ loop' = [loop EXCEPT !.phase = "users", !.k = 1, !.passes = @ + 1]
    /\ UNCHANGED <<store_ok, store, sendlog, run>>
    /\ UNCHANGED mvars
    /\ UNCHANGED cvars

\* POST /api/monitor/trigger by user u: eventlet.tpool.execute of
\* _check_user_sync; the handler runs when the loop's thread is not held by a
\* cleanup
Trigger(u) ==
    /\ loop.passes + loop.triggers < MaxRequests
    /\ run["hub"].pc = "idle"
    /\ HasFreeSlot
    /\ run' = [run EXCEPT ![FreeSlot] = MonitorCycle(u, "manual", TRUE)]
    /\ loop' = [loop EXCEPT !.triggers = @ + 1]
    /\ UNCHANGED <<now, store_ok, store, sendlog>>
    /\ UNCHANGED mvars
    /\ UNCHANGED cvars

NextService ==
    \/ Execute
    \/ Resume
    \/ CheckCleanupSchedule
    \/ \E constructed \in BOOLEAN : RunCleanup(constructed)
    \/ CleanupDone
    \/ Sleep
    \/ \E u \in Users : Trigger(u)
    \/ \E s \in Slots : Load(s, TRUE)
    \/ \E s \in Slots, b \in ServiceBatches \cup {<<>>} : Tasks(s, b)
    \/ \E s \in Slots : Save(s)
    \/ \E s \in Slots : Evaluate(s)
    \/ \E s \in Slots, d \in ServiceLlmSeconds : Llm(s, d)
    \/ \E s \in Slots : Emit(s)
    \/ \E s \in Slots : Abort(s)
    \/ \E s \in Slots : Record(s)
    \/ \E s \in Slots, m \in ServiceEscalations : Fetch(s, m)
    \/ \E s \in Slots : Escalate(s)
    \/ \E s \in Slots : GeneratorRaises(s)
    \/ \E s \in Slots : FetchRaises(s)
    \/ \E s \in Slots : Return(s)

SpecService == InitService /\ [][NextService]_vars

---------------------------------------------------------------------------
(* The task lifecycle: CleanupAgent.run and MonitorAgent.check_stale_tasks  *)
(* on the tasks and the folders of one user.  Both read                     *)
(* datetime.now(timezone.utc); the server's clock is UTC, and a run is      *)
(* short against thresholds counted in days: it reads the clock as one      *)
(* instant.                                                                 *)

\* stale_threshold = now - timedelta(days=10), of run and _cleanup_empty_folders
cleanup_stale_days == 10
\* stale_threshold = now - timedelta(days=3), of check_stale_tasks
monitor_stale_days == 3
\* 'tasks': stale_tasks_found[:3]
stale_examples == 3

\* a Firestore timestamp, read as an aware datetime in UTC
Stamp(t) == [kind |-> "timestamp", at |-> t]
\* 'YYYY-MM-DD', the due_date FirebaseClient.create_task and edit_task store
DateString(d) == [kind |-> "string", parseable |-> TRUE, at |-> d * SecondsPerDay]
\* an ISO string with its UTC designator, and a string that is no date
IsoString(t) == [kind |-> "string", parseable |-> TRUE, at |-> t]
Garbage == [kind |-> "string", parseable |-> FALSE, at |-> 0]
\* the field is None or absent
NoValue == [kind |-> "none", at |-> 0]

\* 00:00:00 of a calendar day
Midnight(d) == d * SecondsPerDay

\* hasattr(value, 'astimezone')
IsDatetime(value) == value.kind = "timestamp"

\* (b - a).days of a timedelta
DaysBetween(a, b) == (b - a) \div SecondsPerDay

\* mutant: completed tasks are categorised like the others
Skipped_never(task) == FALSE

\* if task.get('completed'): continue
Skipped(task) == task.completed

\* RULE 1: if due_date: if hasattr(due_date, 'astimezone'): if due_date_utc < now
DuePassed(task, t) ==
    /\ task.due_date.kind # "none"
    /\ IsDatetime(task.due_date)
    /\ task.due_date.at < t

\* mutant: ten days old counts as untouched
Untouched_inclusive(task, t) ==
    task.created_at.at <= t - cleanup_stale_days * SecondsPerDay

\* RULE 2: created_at_utc < stale_threshold
Untouched(task, t) ==
    task.created_at.at < t - cleanup_stale_days * SecondsPerDay

\* f"Overdue by {days} days" and f"Untouched for {days} days", with
\* " (high priority)" for the tasks to escalate
Reason(rule, days, high) == [rule |-> rule, days |-> days, high |-> high]

Undated_never(task) == FALSE

\* else: continue, "Can't process without timestamp"
Undated(task) == ~IsDatetime(task.created_at)

\* the body of the loop over the tasks: the item appended for one task, and
\* the list it is appended to, or nothing
Categorize(task, t) ==
    IF Skipped(task) THEN <<>>
    ELSE IF Undated(task) THEN <<>>
    ELSE IF DuePassed(task, t)
         THEN <<[list |-> IF task.is_high_priority THEN "escalate" ELSE "delete",
                 task |-> task,
                 reason |-> Reason("overdue", DaysBetween(task.due_date.at, t),
                                   task.is_high_priority)]>>
    ELSE IF Untouched(task, t)
         THEN <<[list |-> IF task.is_high_priority THEN "escalate" ELSE "delete",
                 task |-> task,
                 reason |-> Reason("untouched", DaysBetween(task.created_at.at, t),
                                   task.is_high_priority)]>>
    ELSE <<>>

\* for task in tasks: the items in the order they are appended
RECURSIVE Categorized(_, _)
Categorized(snapshot, t) ==
    IF snapshot = <<>> THEN <<>>
    ELSE Categorize(Head(snapshot), t) \o Categorized(Tail(snapshot), t)

\* the two lists of run
tasks_to_delete(snapshot, t) ==
    SelectSeq(Categorized(snapshot, t), LAMBDA item : item.list = "delete")
high_priority_stale_tasks(snapshot, t) ==
    SelectSeq(Categorized(snapshot, t), LAMBDA item : item.list = "escalate")

\* the insight of _generate_high_priority_insight
StaleWarning(item) ==
    [type |-> "high_priority_stale_warning", priority |-> "high",
     task_id |-> item.task.id, reason |-> item.reason, folder |-> item.task.folder]

\* tasks.where('folder', '==', folder_id).limit(1).stream() yields nothing
FolderEmpty(folder, collection) ==
    \A j \in 1..Len(collection) : collection[j].folder # folder.id

\* mutant: an empty folder is reclaimed whatever its age
FolderStale_always(folder, t) == TRUE

\* created_at and hasattr(created_at, 'astimezone') and created_at_utc < stale_threshold
FolderStale(folder, t) ==
    /\ IsDatetime(folder.created_at)
    /\ folder.created_at.at < t - cleanup_stale_days * SecondsPerDay

\* run goes on to the first of its loops that has an item: the folders once
\* the escalations are through, the end once the folders are
ToFolders(a, fs) ==
    IF fs # <<>> THEN [a EXCEPT !.pc = "folders", !.i = 1, !.listed = fs]
                 ELSE [a EXCEPT !.pc = "done", !.i = 0, !.listed = fs]
ToEscalations(a, fs) ==
    IF a.high_priority_stale_tasks # <<>> THEN [a EXCEPT !.pc = "escalate", !.i = 1]
                                          ELSE ToFolders(a, fs)
ToDeletions(a, fs) ==
    IF a.tasks_to_delete # <<>> THEN [a EXCEPT !.pc = "delete", !.i = 1]
                                ELSE ToEscalations(a, fs)

\* mutant: a deletion that raises ends the run
AfterDelete_raise(a, ok, fs) ==
    IF ~ok THEN [a EXCEPT !.pc = "done"]
    ELSE IF a.i < Len(a.tasks_to_delete) THEN [a EXCEPT !.i = @ + 1]
    ELSE ToEscalations(a, fs)

\* for item in tasks_to_delete: _delete_task catches what delete() raises
AfterDelete(a, ok, fs) ==
    IF a.i < Len(a.tasks_to_delete) THEN [a EXCEPT !.i = @ + 1]
                                    ELSE ToEscalations(a, fs)

\* store writes that raise in one run
MaxFaults == 1

\* CleanupAgent.run up to its summary: the tasks are fetched and categorised
Run ==
    /\ agent.pc = "idle"
    /\ agent' = ToDeletions([agent EXCEPT
                                !.snapshot = tasks,
                                !.tasks_to_delete = tasks_to_delete(tasks, now),
                                !.high_priority_stale_tasks =
                                    high_priority_stale_tasks(tasks, now)],
                            folders)
    /\ UNCHANGED <<tasks, folders, insights>>
    /\ UNCHANGED <<now, store_ok>>
    /\ UNCHANGED mvars
    /\ UNCHANGED svars

\* self._delete_task(item['task']['id'], user_id): ok is FALSE when delete()
\* raises
DeleteTask(ok) ==
    /\ agent.pc = "delete"
    /\ ok \/ agent.faults < MaxFaults
    /\ LET id == agent.tasks_to_delete[agent.i].task.id
           a == IF ok THEN agent
                      ELSE [agent EXCEPT !.faults = @ + 1, !.failed_tasks = @ \cup {id}]
       IN  /\ tasks' = IF ok THEN SelectSeq(tasks, LAMBDA task : task.id # id) ELSE tasks
           /\ agent' = AfterDelete(a, ok, folders)
    /\ UNCHANGED <<folders, insights>>
    /\ UNCHANGED <<now, store_ok>>
    /\ UNCHANGED mvars
    /\ UNCHANGED svars

\* self._generate_high_priority_insight(item, socketio, user_id): the insight
\* is stored; ok is FALSE when doc_ref.set raises, which the method catches
GenerateInsight(ok) ==
    /\ agent.pc = "escalate"
    /\ ok \/ agent.faults < MaxFaults
    /\ LET item == agent.high_priority_stale_tasks[agent.i]
           a == IF ok THEN agent
                      ELSE [agent EXCEPT !.faults = @ + 1,
                                         !.failed_insights = @ \cup {item.task.id}]
       IN  /\ insights' = IF ok THEN Append(insights, StaleWarning(item)) ELSE insights
           /\ agent' = IF a.i < Len(a.high_priority_stale_tasks)
                       THEN [a EXCEPT !.i = @ + 1]
                       ELSE ToFolders(a, folders)
    /\ UNCHANGED <<tasks, folders>>
    /\ UNCHANGED <<now, store_ok>>
    /\ UNCHANGED mvars
    /\ UNCHANGED svars

\* _cleanup_empty_folders, one folder of the stream: ok is FALSE when the
\* folder's delete() raises
CleanupFolder(ok) ==
    /\ agent.pc = "folders"
    /\ LET folder == agent.listed[agent.i]
           reclaim == FolderEmpty(folder, tasks) /\ FolderStale(folder, now)
           a == IF ~reclaim THEN agent
                ELSE IF ok THEN [agent EXCEPT !.deleted_count = @ + 1]
                ELSE [agent EXCEPT !.faults = @ + 1, !.failed_folders = @ \cup {folder.id}]
       IN  /\ ok \/ (reclaim /\ agent.faults < MaxFaults)
           /\ folders' = IF reclaim /\ ok
                         THEN SelectSeq(folders, LAMBDA f : f.id # folder.id)
                         ELSE folders
           /\ agent' = IF a.i < Len(a.listed) THEN [a EXCEPT !.i = @ + 1]
                                              ELSE [a EXCEPT !.pc = "done", !.i = 0]
    /\ UNCHANGED <<tasks, insights>>
    /\ UNCHANGED <<now, store_ok>>
    /\ UNCHANGED mvars
    /\ UNCHANGED svars

---------------------------------------------------------------------------
(* The stale task warning of the monitor *)

\* created_at as check_stale_tasks reads it: <<the instant>>, or <<>> for a
\* task it skips (no value, or a string fromisoformat rejects)
ReadCreated(created_at) ==
    IF created_at.kind = "none" THEN <<>>
    ELSE IF created_at.kind = "string"
         THEN (IF created_at.parseable THEN <<created_at.at>> ELSE <<>>)
    ELSE IF IsDatetime(created_at) THEN <<created_at.at>>
    ELSE <<>>

\* the task is appended to stale_tasks_found: created_at < stale_threshold
StaleFor(task, t) ==
    /\ ~Skipped(task)
    /\ ReadCreated(task.created_at) # <<>>
    /\ ReadCreated(task.created_at)[1] < t - monitor_stale_days * SecondsPerDay

\* stale_tasks_found
stale_tasks_found(snapshot, t) ==
    LET found == SelectSeq(snapshot, LAMBDA task : StaleFor(task, t))
    IN  [j \in 1..Len(found) |->
            [task_id |-> found[j].id,
             days_old |-> DaysBetween(ReadCreated(found[j].created_at)[1], t)]]

\* mutant: every stale task is listed
Examples_all(found) == found

\* stale_tasks_found[:3]
Examples(found) ==
    SubSeq(found, 1, IF Len(found) < stale_examples THEN Len(found) ELSE stale_examples)

\* check_stale_tasks(tasks): one insight for all the stale tasks, or none
check_stale_tasks(snapshot, t) ==
    LET found == stale_tasks_found(snapshot, t)
    IN  IF found # <<>>
        THEN <<[type |-> "stale_task_warning", priority |-> "medium",
                count |-> Len(found), tasks |-> Examples(found)]>>
        ELSE <<>>

\* all_insights.extend(self.check_stale_tasks(tasks)) on the user's tasks
CheckStaleTasks ==
    /\ agent.pc = "idle"
    /\ insights' = insights \o check_stale_tasks(tasks, now)
    /\ agent' = [agent EXCEPT !.pc = "generated", !.snapshot = tasks]
    /\ UNCHANGED <<tasks, folders>>
    /\ UNCHANGED <<now, store_ok>>
    /\ UNCHANGED mvars
    /\ UNCHANGED svars

---------------------------------------------------------------------------
(* One cleanup run, or one stale task check, on every small collection *)

\* tasks of the user
MaxTasks == 2

\* Sunday 21:00, the hour of the weekly cleanup
CleanupStart == At(20, 21, 0, 0)

\* how old tasks and folders are: two days, ten days to the second, and more
\* than eleven days
Young == 2 * SecondsPerDay
TenDays == cleanup_stale_days * SecondsPerDay
Old == 11 * SecondsPerDay + 5 * SecondsPerHour
TaskAges == {Young, TenDays, Old}
FolderAges == {3 * SecondsPerDay, TenDays, Old}

\* due dates around the day of t: none, a date string as the assistant stores
\* it, and a timestamp at 00:00 of the day due as run reads it
DueDates(t) ==
    {NoValue, DateString(DateOf(t) - 1),
     Stamp(Midnight(DateOf(t) - 1)), Stamp(Midnight(DateOf(t))),
     Stamp(Midnight(DateOf(t) + 1))}

\* what a task can be at t, but for its id and folder: incomplete, completed,
\* and overdue with no created_at or with one that is a string
TaskKinds(t) ==
    [completed : {FALSE}, is_high_priority : BOOLEAN, due_date : DueDates(t),
     created_at : {Stamp(t - age) : age \in TaskAges}]
    \cup
    [completed : {TRUE}, is_high_priority : BOOLEAN,
     due_date : {NoValue, Stamp(Midnight(DateOf(t) - 1))},
     created_at : {Stamp(t - Young), Stamp(t - Old)}]
    \cup
    [completed : {FALSE}, is_high_priority : BOOLEAN,
     due_date : {Stamp(Midnight(DateOf(t) - 1))},
     created_at : {NoValue, IsoString(t - Old)}]

\* the tasks collection: documents 1..n in stream order, all in folder f1
Collection(kinds) ==
    [j \in 1..Len(kinds) |->
        [id |-> j, completed |-> kinds[j].completed,
         is_high_priority |-> kinds[j].is_high_priority,
         due_date |-> kinds[j].due_date, created_at |-> kinds[j].created_at,
         folder |-> "f1"]]

\* the folders collection: f1 holds the tasks, f2 holds none
FoldersAt(t, age) ==
    << [id |-> "f1", created_at |-> Stamp(t - Old)],
       [id |-> "f2", created_at |-> Stamp(t - age)] >>

InitCleanup ==
    \E n \in 0..MaxTasks, age \in FolderAges :
        \E kinds \in [1..n -> TaskKinds(CleanupStart)] :
            /\ now = CleanupStart
            /\ tasks = Collection(kinds)
            /\ folders = FoldersAt(CleanupStart, age)
            /\ agent = IdleAgent
            /\ insights = <<>>
            /\ store_ok = TRUE
            /\ NoManager
            /\ NoService

NextCleanup ==
    \/ Run
    \/ \E ok \in BOOLEAN : DeleteTask(ok)
    \/ \E ok \in BOOLEAN : GenerateInsight(ok)
    \/ \E ok \in BOOLEAN : CleanupFolder(ok)
    \/ CheckStaleTasks

SpecCleanup == InitCleanup /\ [][NextCleanup]_vars

---------------------------------------------------------------------------
(* check_stale_tasks on every small snapshot *)

\* tasks of a snapshot
MaxSnapshot == 5

\* what a task of the snapshot can be: incomplete with every kind of
\* created_at, or completed
StaleKinds(t) ==
    [completed : {FALSE}, is_high_priority : {FALSE}, due_date : {NoValue},
     created_at : {Stamp(t - Young), Stamp(t - monitor_stale_days * SecondsPerDay),
                   Stamp(t - monitor_stale_days * SecondsPerDay - 1), Stamp(t - Old),
                   IsoString(t - 5 * SecondsPerDay), Garbage, NoValue}]
    \cup
    [completed : {TRUE}, is_high_priority : {FALSE}, due_date : {NoValue},
     created_at : {Stamp(t - Old)}]

InitStale ==
    \E n \in 0..MaxSnapshot :
        \E kinds \in [1..n -> StaleKinds(CleanupStart)] :
            /\ now = CleanupStart
            /\ tasks = Collection(kinds)
            /\ folders = <<>>
            /\ agent = IdleAgent
            /\ insights = <<>>
            /\ store_ok = TRUE
            /\ NoManager
            /\ NoService

NextStale == CheckStaleTasks

SpecStale == InitStale /\ [][NextStale]_vars

---------------------------------------------------------------------------
(* What the claims speak of, read off the call just answered and the log   *)
(* of recorded sends                                                       *)

\* should_send_now has just returned
Asked == last.op = "should_send_now"
AskedPriority == last.insight.priority
AskedRoutine == AskedPriority \in {"low", "medium"}

\* the hours 22, 23, 0, ..., 6
QuietHourSet == {22, 23} \cup (0 .. 6)

\* seconds since the last recorded send
HasSent == Len(recorded) > 0
Elapsed == now - recorded[Len(recorded)].at

\* sends recorded on calendar day d
SendsOn(d) == Cardinality({i \in 1..Len(recorded) : DateOf(recorded[i].at) = d})

\* the deny rules, as the specification words them
QuietDenies == HourOf(now) \in QuietHourSet /\ AskedRoutine
BudgetDenies == state.sent_today >= 6 /\ AskedRoutine
GapDenies == HasSent /\ Elapsed < 120 * 60 /\ AskedRoutine
DupDenies ==
    \E i \in 1..Len(recorded) :
        /\ recorded[i].entry.type = last.insight.type
        /\ now - recorded[i].at < 24 * 60 * 60

EarliestRule ==
    IF QuietDenies THEN "Quiet hours"
    ELSE IF BudgetDenies THEN "Daily budget exhausted"
    ELSE IF GapDenies THEN "Too soon"
    ELSE IF DupDenies THEN "Similar notification sent recently"
    ELSE "All checks passed"

\* C1: the rollover has been done when should_send_now returns, and for a
\* non-critical insight the reason returned is that of the earliest rule, in the
\* order quiet hours, budget, minimum gap, duplicate, that denies it; when none
\* denies, the result is (True, "All checks passed").
C1_FirstRuleWins ==
    (Asked /\ AskedPriority # "critical") =>
        /\ state.last_reset = DateOf(now)
        /\ last.answer.text = EarliestRule
        /\ last.answer.send = (EarliestRule = "All checks passed")
        /\ last.answer.send => last.answer = Answer(TRUE, "All checks passed", 0, 0)

\* all four deny rules apply at once and the quiet-hours reason is returned
C1_Witness ==
    /\ Asked
    /\ QuietDenies /\ BudgetDenies /\ GapDenies /\ DupDenies
    /\ last.answer.text = "Quiet hours"

\* C2: a critical insight is always sent, whatever the hour, the counter, the
\* time of the last send and the history.
C2_CriticalAlwaysSent ==
    (Asked /\ AskedPriority = "critical") =>
        last.answer = Answer(TRUE, "Critical priority - sending immediately", 0, 0)

\* a critical insight sent in quiet hours, over budget, minutes after a send of
\* its own type
C2_Witness ==
    /\ Asked /\ AskedPriority = "critical" /\ last.answer.send
    /\ HourOf(now) \in QuietHourSet
    /\ state.sent_today >= 6
    /\ HasSent /\ Elapsed < 120 * 60
    /\ DupDenies

\* C3: at the hours 22, 23, 0..6 a low or medium insight is denied with the
\* reason naming the 22:00-7:00 window; a high insight is never denied by the
\* quiet-hours rule; at the hours 7..21 the rule denies nothing.
C3_QuietHours ==
    Asked =>
        /\ (HourOf(now) \in QuietHourSet /\ AskedRoutine)
               => last.answer = Answer(FALSE, "Quiet hours", 22, 7)
        /\ AskedPriority = "high" => last.answer.text # "Quiet hours"
        /\ HourOf(now) \in 7 .. 21 => last.answer.text # "Quiet hours"

\* a medium insight denied at 22:00, the first quiet hour
C3_Witness ==
    /\ Asked /\ AskedPriority = "medium" /\ HourOf(now) = 22
    /\ last.answer.text = "Quiet hours"

\* C4: with sent_today >= 6 a low or medium insight is denied; after six or
\* more sends recorded on the current day such an insight, asked outside the
\* quiet hours, is denied with the budget reason carrying sent_today/6; a high
\* insight is never denied by the budget rule.
C4_BudgetDenies ==
    Asked =>
        /\ (AskedRoutine /\ state.sent_today >= 6) => ~last.answer.send
        /\ (AskedRoutine /\ SendsOn(DateOf(now)) >= 6 /\ ~QuietDenies)
               => last.answer = Answer(FALSE, "Daily budget exhausted", state.sent_today, 6)
        /\ AskedPriority = "high" => last.answer.text # "Daily budget exhausted"

\* C5: a low or medium insight that passed quiet hours and budget less than
\* 120 minutes after the last send is denied with floor(120 - elapsed minutes)
\* minutes to wait; after 120 minutes or more, or for a high or critical
\* insight, the minimum-gap rule denies nothing.
C5_MinimumGap ==
    Asked =>
        /\ (AskedRoutine /\ ~QuietDenies /\ ~BudgetDenies /\ HasSent /\ Elapsed < 120 * 60)
               => last.answer = Answer(FALSE, "Too soon", (120 * 60 - Elapsed) \div 60, 0)
        /\ (HasSent /\ Elapsed = 30 * 60 /\ last.answer.text = "Too soon")
               => last.answer.a = 90
        /\ (~HasSent \/ Elapsed >= 120 * 60 \/ AskedPriority \in {"high", "critical"})
               => last.answer.text # "Too soon"

\* thirty minutes after a send: wait 90 more minutes
C5_Witness ==
    /\ Asked /\ HasSent /\ Elapsed = 30 * 60
    /\ last.answer = Answer(FALSE, "Too soon", 90, 0)

\* C6: a non-critical insight that passed quiet hours, budget and minimum gap
\* is denied as a duplicate when a send of its type was recorded strictly less
\* than 24 hours ago; when every send of its type is 24 hours old or older the
\* duplicate rule does not deny.
C6_DuplicateSuppression ==
    Asked =>
        /\ (AskedPriority # "critical" /\ ~QuietDenies /\ ~BudgetDenies /\ ~GapDenies
                /\ DupDenies)
               => last.answer = Answer(FALSE, "Similar notification sent recently", 0, 0)
        /\ ~DupDenies => last.answer.text # "Similar notification sent recently"

\* a high insight denied as a duplicate
C6_Witness ==
    /\ Asked /\ AskedPriority = "high"
    /\ last.answer.text = "Similar notification sent recently"

\* C7: a should_send_now call that finds last_reset different from today's
\* date leaves sent_today = 0 and last_reset = today, whatever it decides, and
\* its budget rule works on the reset counter.
C7_RolloverFirst ==
    [][ (last'.op = "should_send_now" /\ now' = now /\ state.last_reset # DateOf(now))
            => /\ state'.sent_today = 0
               /\ state'.last_reset = DateOf(now)
               /\ last'.answer.text # "Daily budget exhausted" ]_vars

\* a low or medium insight admitted on the morning after six or more sends
C7_Witness ==
    /\ Asked /\ AskedRoutine /\ last.answer.send
    /\ Len(recorded) >= 6
    /\ \A i \in 1..Len(recorded) : DateOf(recorded[i].at) < DateOf(now)
    /\ state.sent_today = 0 /\ state.last_reset = DateOf(now)

\* C8: the first should_send_now call of a new calendar day resets sent_today
\* and sets last_reset; every later call that day leaves the state and the
\* stored document as they are.
C8_RolloverIdempotent ==
    [][ (last'.op = "should_send_now" /\ now' = now)
            => IF last.checked = DateOf(now)
               THEN state' = state /\ persisted' = persisted
               ELSE state.last_reset # DateOf(now)
                        => state'.sent_today = 0 /\ state'.last_reset = DateOf(now) ]_vars

\* a second call on the day after the sends, the counter still 0
C8_Witness ==
    /\ Asked /\ last.repeat
    /\ HasSent
    /\ \A i \in 1..Len(recorded) : DateOf(recorded[i].at) < DateOf(now)
    /\ state.sent_today = 0 /\ state.last_reset = DateOf(now)

\* C9: notification_history holds at most 50 entries, oldest first, and they
\* are the last min(n, 50) of the n sends recorded.
C9_HistoryBound ==
    LET h == state.notification_history
        n == Len(recorded)
        m == IF n < 50 THEN n ELSE 50
    IN  /\ Len(h) <= 50
        /\ Len(h) = m
        /\ \A i \in 1..m : h[i] = recorded[n - m + i].entry
        /\ \A i \in 1..(m - 1) : recorded[n - m + i].at <= recorded[n - m + i + 1].at

\* sixty sends recorded, fifty kept, the first kept being the eleventh
C9_Witness ==
    /\ Len(recorded) = 60
    /\ Len(state.notification_history) = 50
    /\ state.notification_history[1] = recorded[11].entry
    /\ recorded[1].at < recorded[60].at

\* C10: whenever last_reset is today's date, sent_today is the number of
\* record_sent calls made today.
C10_SentTodayCountsSends ==
    state.last_reset = DateOf(now) => state.sent_today = SendsOn(DateOf(now))

---------------------------------------------------------------------------
(* What the claims speak of, read off the cycles' traces *)

\* the call the thread s makes in this step, "none" when it makes none
StepOp(s) ==
    IF Len(run'[s].trace) = Len(run[s].trace) + 1
    THEN run'[s].trace[Len(run'[s].trace)].op
    ELSE "none"

\* the trace of thread s holds, before position j, a call op on insight i
Earlier(s, j, op, i) ==
    \E k \in 1..(j - 1) : run[s].trace[k].op = op /\ run[s].trace[k].i = i

\* C11: a should_send_now call leaves last_notification_time and the history
\* as they are and changes sent_today only by the rollover reset to 0; a
\* record_sent call adds one to sent_today, sets last_notification_time to now
\* and appends the insight's entry; the calls between them (text generation,
\* emit, an exception that skips record_sent) leave the state as it was.
C11_DecideRecordSeparate ==
    [][ \A s \in Slots :
          LET a == run[s].state
              b == run'[s].state
              op == StepOp(s)
          IN  /\ op = "should_send_now" =>
                    /\ b.last_notification_time = a.last_notification_time
                    /\ b.notification_history = a.notification_history
                    /\ \/ b.sent_today = a.sent_today
                       \/ a.last_reset # DateOf(now) /\ b.sent_today = 0
              /\ op = "record_sent" =>
                    /\ b.sent_today = a.sent_today + 1
                    /\ b.last_notification_time = <<isoformat(now)>>
                    /\ Len(b.notification_history) > 0
                    /\ b.notification_history[Len(b.notification_history)]
                           = history_entry(now, run[s].batch[run[s].i])
              /\ op \in {"llm", "emit", "abort"} => b = a ]_vars

\* a cycle whose emit failed after a True decision: record_sent was skipped
\* and the state is the one loaded, last send and history included
C11_Witness ==
    \E s \in Slots :
        LET r == run[s]
            log == sendlog[r.user]
        IN  /\ r.pc = "done" /\ Len(r.trace) = 5
            /\ r.trace[1].op = "load" /\ r.trace[1].send
            /\ r.trace[3].op = "should_send_now" /\ r.trace[3].send
            /\ r.trace[5].op = "abort"
            /\ Len(log) > 0
            /\ r.state.sent_today = Len(log)
            /\ r.state.last_notification_time = <<isoformat(log[Len(log)].at)>>
            /\ r.state.notification_history = [j \in 1..Len(log) |-> log[j].entry]

\* C12: every notification emitted in a cycle, monitor or cleanup, comes after
\* a should_send_now call of that cycle on the same insight that returned True.
C12_EmitAfterAdmission ==
    \A s \in Slots :
        \A j \in 1..Len(run[s].trace) :
            run[s].trace[j].op = "emit" =>
                \E k \in 1..(j - 1) :
                    /\ run[s].trace[k].op = "should_send_now"
                    /\ run[s].trace[k].i = run[s].trace[j].i
                    /\ run[s].trace[k].send

\* C13: in a monitor cycle every text generation comes after a should_send_now
\* call on the same insight that returned True, and no text is generated for an
\* insight whose decision was False.
C13_LlmAfterAdmission ==
    \A s \in Slots :
        \A j \in 1..Len(run[s].trace) :
            LET e == run[s].trace[j] IN
            /\ e.op = "llm" =>
                   \E k \in 1..(j - 1) :
                       /\ run[s].trace[k].op = "should_send_now"
                       /\ run[s].trace[k].i = e.i
                       /\ run[s].trace[k].send
            /\ (e.op = "should_send_now" /\ ~e.send) =>
                   \A k \in 1..Len(run[s].trace) :
                       ~(run[s].trace[k].op = "llm" /\ run[s].trace[k].i = e.i)

\* a finished cycle that generated the text of an admitted insight and went on
\* to deny the next one
C13_Witness ==
    \E s \in Slots :
        LET r == run[s] IN
        /\ r.pc = "done" /\ r.kind = "monitor"
        /\ \E j, k \in 1..Len(r.trace) :
               /\ j < k
               /\ r.trace[j].op = "llm" /\ r.trace[j].i = 1
               /\ r.trace[k].op = "should_send_now" /\ r.trace[k].i = 2
               /\ ~r.trace[k].send
        /\ r.trace[Len(r.trace)].op = "should_send_now"

\* C14: in a monitor cycle record_sent is called for an insight only after the
\* notification for that insight was emitted.
C14_RecordAfterDelivery ==
    \A s \in Slots :
        \A j \in 1..Len(run[s].trace) :
            run[s].trace[j].op = "record_sent" =>
                Earlier(s, j, "emit", run[s].trace[j].i)

\* the decisions of a cycle, in the order they were made
Decisions(s) == SelectSeq(run[s].trace, LAMBDA e : e.op = "should_send_now")

\* in the cycle of thread s a send was recorded before position j of the trace
RecordedBefore(s, j) == \E k \in 1..(j - 1) : run[s].trace[k].op = "record_sent"

\* the insights of a cycle are evaluated one at a time in generation order,
\* each after the record_sent of every earlier admitted one
InBatchOrder(s) ==
    LET r == run[s] IN
    /\ \A a, b \in 1..Len(r.batch) :
           a < b => GenerationRank(r.batch[a]) < GenerationRank(r.batch[b])
    /\ \A k \in 1..Len(Decisions(s)) : Decisions(s)[k].i = k
    /\ \A j \in 1..Len(r.trace) :
           r.trace[j].op = "should_send_now" =>
               \A k \in 1..(j - 1) :
                   (r.trace[k].op = "should_send_now" /\ r.trace[k].send)
                       => Earlier(s, j, "record_sent", r.trace[k].i)
    /\ \A j \in 1..Len(r.trace) :
           r.trace[j].op = "record_sent" =>
               \E h \in 1..Len(r.state.notification_history) :
                   r.state.notification_history[h].type = r.batch[r.trace[j].i].type

\* the reasons of the decisions on low and medium insights made after a send
\* of the same cycle was recorded are all in the set reasons
LaterRoutineDenied(s, reasons) ==
    LET r == run[s] IN
    \A j \in 1..Len(r.trace) :
        ( /\ r.trace[j].op = "should_send_now"
          /\ r.batch[r.trace[j].i].priority \in {"low", "medium"}
          /\ RecordedBefore(s, j) )
            => ~r.trace[j].send /\ r.trace[j].text \in reasons

\* C17: the insights of a monitor cycle are evaluated in generation order, each
\* decision on the state left by the earlier record_sent calls; once a send of
\* the batch is recorded every later low or medium insight of the batch is
\* denied by the minimum-gap or the budget rule.
C17_BatchOrder ==
    \A s \in Slots :
        run[s].kind = "monitor" =>
            /\ InBatchOrder(s)
            /\ LaterRoutineDenied(s, {"Too soon", "Daily budget exhausted"})

\* C17, amended: ... every later low or medium insight of the batch is denied:
\* by the quiet-hours rule from 22:00 to 7:00, else by the budget or the
\* minimum-gap rule.
C17_BatchOrderDenied ==
    \A s \in Slots :
        run[s].kind = "monitor" =>
            /\ InBatchOrder(s)
            /\ LaterRoutineDenied(s, {"Quiet hours", "Too soon", "Daily budget exhausted"})
            /\ \A j \in 1..Len(run[s].trace) :
                   (run[s].trace[j].op = "should_send_now"
                        /\ run[s].trace[j].text = "Quiet hours")
                       => HourOf(now) \in QuietHourSet

\* a finished cycle of four insights: the first admitted and recorded, the
\* three after it denied as too soon
C17_Witness ==
    \E s \in Slots :
        LET r == run[s] IN
        /\ r.pc = "done" /\ Len(r.batch) = 4
        /\ Len(Decisions(s)) = 4
        /\ Decisions(s)[1].send
        /\ \A k \in 2..4 : Decisions(s)[k].text = "Too soon"

\* C20: constructing the manager on a missing document, or on one whose read
\* raises, gives the state sent_today = 0, last_reset = today, no last
\* notification time and an empty history, and the cycle goes on to its tasks.
C20_FreshStateOnLoadFailure ==
    [][ \A s \in Slots :
          (StepOp(s) = "load" /\ (store[run[s].user] = <<>> \/ ~run'[s].trace[1].send))
              => /\ run'[s].state = [sent_today |-> 0, last_reset |-> DateOf(now),
                                     last_notification_time |-> <<>>,
                                     notification_history |-> <<>>]
                 /\ run'[s].pc = "tasks" ]_vars

\* a cycle that could not read a document holding sends and went on to decide
\* on its first insight with an empty history
C20_Witness ==
    \E s \in Slots :
        LET r == run[s] IN
        /\ Len(r.trace) >= 3
        /\ r.trace[1].op = "load" /\ ~r.trace[1].send /\ r.trace[1].text = "exists"
        /\ store[r.user] # <<>> /\ store[r.user][1].sent_today > 0
        /\ r.trace[3].op = "should_send_now"
        /\ r.state.notification_history = <<>>

\* a cycle is in progress in thread s
InCycle(s) == run[s].pc \notin {"idle", "done"}

\* an admission-decision cycle (load state, should_send_now, record_sent) is
\* in progress in thread s
Admitting(s) == InCycle(s) /\ run[s].kind = "monitor"

\* sends recorded for user u on calendar day d
SendsOnFor(u, d) ==
    Cardinality({j \in 1..Len(sendlog[u]) : DateOf(sendlog[u][j].at) = d})

\* C15: at most one admission-decision cycle is in progress for a user at any
\* time, also when the manual trigger is served for a user while the monitor
\* loop runs that user's cycle (one trigger served: of two cycles in progress
\* one is the loop's).
C15_OneCyclePerUser ==
    loop.triggers <= 1 =>
        \A s1, s2 \in Slots :
            (s1 # s2 /\ Admitting(s1) /\ Admitting(s2)) => run[s1].user # run[s2].user

\* C16: once a manually triggered cycle and the scheduled cycles have
\* finished, and no store call having failed, each user's document has
\* sent_today equal to the number of sends recorded for the user that day and
\* a history with an entry for each of them, up to 50.
C16_NoLostUpdate ==
    ((\A s \in Slots : ~InCycle(s)) /\ store_ok /\ loop.triggers <= 1) =>
        \A u \in Users :
            sendlog[u] # <<>> =>
                /\ store[u] # <<>>
                /\ store[u][1].last_reset = DateOf(now)
                       => store[u][1].sent_today = SendsOnFor(u, DateOf(now))
                /\ Len(store[u][1].notification_history)
                       = (IF Len(sendlog[u]) < 50 THEN Len(sendlog[u]) ELSE 50)

\* C18: no two scheduled cycles, monitor or cleanup, are in progress at the
\* same time: the one in progress is the call the loop is waiting for, made
\* for the user the loop has reached.
C18_ScheduledSequential ==
    /\ Cardinality({s \in Slots : InCycle(s) /\ run[s].origin = "scheduled"}) <= 1
    /\ \A s \in Slots :
           (InCycle(s) /\ run[s].origin = "scheduled") =>
               /\ loop.wait = s
               /\ loop.k \in 1..Len(monitored_users)
               /\ run[s].user = monitored_users[loop.k]
               /\ run[s].kind = (IF loop.phase = "cleanup" THEN "cleanup" ELSE "monitor")

\* the cleanup cycle of the second user escalating, the monitor cycles of both
\* users having recorded their sends
C18_Witness ==
    /\ run["hub"].pc = "escalate" /\ run["hub"].user = "u2"
    /\ loop.phase = "cleanup" /\ loop.k = 2
    /\ sendlog["u1"] # <<>> /\ sendlog["u2"] # <<>>

\* C19: when should_send_now or record_sent returns, the stored document equals
\* the state in memory, also when the store write raised.
C19_PersistedOnReturn ==
    last.op \in {"should_send_now", "record_sent"} => persisted = state

---------------------------------------------------------------------------
(* What the claims speak of, read off the agent's lists and the collections *)

\* the task is still in the collection
Kept(id) == \E j \in 1..Len(tasks) : tasks[j].id = id

\* the items a list holds for a task
ItemsOf(list, id) == {j \in 1..Len(list) : list[j].task.id = id}

\* what the run decided for a task: its items in the two lists
Classified(id) ==
    {agent.tasks_to_delete[j] : j \in ItemsOf(agent.tasks_to_delete, id)}
    \cup {agent.high_priority_stale_tasks[j] :
              j \in ItemsOf(agent.high_priority_stale_tasks, id)}

\* the high priority warnings stored for a task
WarningsOf(id) ==
    {j \in 1..Len(insights) :
        insights[j].type = "high_priority_stale_warning" /\ insights[j].task_id = id}

\* the run has categorised the tasks it fetched
HasCategorized == agent.pc \in {"delete", "escalate", "folders", "done"}

\* the task has a due date and its calendar day is before today's
PastDue(task, t) ==
    /\ task.due_date.kind # "none"
    /\ DateOf(task.due_date.at) < DateOf(t)

\* the task has no due date, or one on a later day than today
DueLater(task, t) ==
    \/ task.due_date.kind = "none"
    \/ DateOf(task.due_date.at) > DateOf(t)

\* created_at is a date, and more than the given days before t
CreatedBefore(task, t, days) ==
    /\ task.created_at.kind \in {"timestamp", "string"}
    /\ task.created_at.kind = "string" => task.created_at.parseable
    /\ t - task.created_at.at > days * SecondsPerDay

\* the folder is no longer in the collection
Gone(folder) == \A k \in 1..Len(folders) : folders[k].id # folder.id

\* C21: a completed task, whatever its age, due date and priority flag, is
\* never deleted by a cleanup run, never put on a list, never the subject of a
\* high priority warning, and never counted or listed by the stale task
\* warning.
C21_CompletedImmune ==
    \A j \in 1..Len(agent.snapshot) :
        LET task == agent.snapshot[j] IN
        task.completed =>
            /\ Kept(task.id)
            /\ Classified(task.id) = {}
            /\ WarningsOf(task.id) = {}
            /\ \A k \in 1..Len(insights) :
                   insights[k].type = "stale_task_warning" =>
                       /\ \A e \in 1..Len(insights[k].tasks) :
                              insights[k].tasks[e].task_id # task.id
                       /\ insights[k].count =
                              Cardinality({m \in 1..Len(agent.snapshot) :
                                  /\ ~agent.snapshot[m].completed
                                  /\ CreatedBefore(agent.snapshot[m], now, monitor_stale_days)})

\* a run that deleted a task and left a completed one that is overdue and
\* eleven days old
C21_Witness ==
    /\ agent.pc = "done"
    /\ Len(tasks) < Len(agent.snapshot)
    /\ \E j \in 1..Len(agent.snapshot) :
           LET task == agent.snapshot[j] IN
           /\ task.completed /\ ~task.is_high_priority
           /\ PastDue(task, now)
           /\ CreatedBefore(task, now, cleanup_stale_days)
           /\ Kept(task.id)

\* C22: an incomplete high priority task is never deleted by a cleanup run;
\* a finished run whose insight writes all succeeded has stored exactly one
\* high_priority_stale_warning for each such task that is overdue or untouched
\* for more than ten days, and none for any other task.
C22_PriorityEscalated ==
    \A j \in 1..Len(agent.snapshot) :
        LET task == agent.snapshot[j]
            protected == ~task.completed /\ task.is_high_priority
        IN  /\ protected => Kept(task.id)
            /\ (agent.pc = "done" /\ agent.failed_insights = {}) =>
                   Cardinality(WarningsOf(task.id)) =
                       IF protected /\ (PastDue(task, now)
                                        \/ CreatedBefore(task, now, cleanup_stale_days))
                       THEN 1 ELSE 0

\* C23: an incomplete task is categorised as overdue exactly when it has a
\* due date whose calendar day is before today's, and one that is due
\* yesterday and not high priority is on the delete list with the reason
\* "Overdue by 1 days".
C23_OverdueByDate ==
    HasCategorized =>
        \A j \in 1..Len(agent.snapshot) :
            LET task == agent.snapshot[j] IN
            ~task.completed =>
                /\ (\E item \in Classified(task.id) : item.reason.rule = "overdue")
                       <=> PastDue(task, now)
                /\ (/\ task.due_date.kind # "none"
                    /\ DateOf(task.due_date.at) = DateOf(now) - 1
                    /\ ~task.is_high_priority) =>
                       \E k \in ItemsOf(agent.tasks_to_delete, task.id) :
                           agent.tasks_to_delete[k].reason = Reason("overdue", 1, FALSE)

\* C24: an incomplete task is on at most one of the two lists and at most
\* once, and the item of a task whose due date is past carries the overdue
\* reason, also when the task was created more than ten days ago.
C24_ExactlyOneAction ==
    HasCategorized =>
        \A j \in 1..Len(agent.snapshot) :
            LET task == agent.snapshot[j] IN
            ~task.completed =>
                /\ Cardinality(ItemsOf(agent.tasks_to_delete, task.id))
                   + Cardinality(ItemsOf(agent.high_priority_stale_tasks, task.id)) <= 1
                /\ (PastDue(task, now) /\ CreatedBefore(task, now, cleanup_stale_days)) =>
                       /\ Classified(task.id) # {}
                       /\ \A item \in Classified(task.id) : item.reason.rule = "overdue"

\* C25: an incomplete task with no due date, or with one on a later day, is
\* put on a list exactly when it was created more than ten days before now;
\* it then carries the reason "Untouched for N days", N the whole days of its
\* age, on the delete list unless it is high priority, and the run deletes it
\* unless the store refuses.
C25_StalenessRule ==
    HasCategorized =>
        \A j \in 1..Len(agent.snapshot) :
            LET task == agent.snapshot[j]
                age == now - task.created_at.at
                item == [list |-> IF task.is_high_priority THEN "escalate" ELSE "delete",
                         task |-> task,
                         reason |-> Reason("untouched", age \div SecondsPerDay,
                                           task.is_high_priority)]
            IN  (~task.completed /\ DueLater(task, now)) =>
                    IF age > cleanup_stale_days * SecondsPerDay
                    THEN /\ Classified(task.id) = {item}
                         /\ ~task.is_high_priority =>
                                /\ ItemsOf(agent.tasks_to_delete, task.id) # {}
                                /\ (agent.pc = "done" /\ task.id \notin agent.failed_tasks)
                                       => ~Kept(task.id)
                    ELSE /\ Classified(task.id) = {}
                         /\ Kept(task.id)

\* a finished run that deleted a task without due date for being untouched for
\* 11 days and left alone one created two days ago
C25_Witness ==
    /\ agent.pc = "done"
    /\ \E j, k \in 1..Len(agent.snapshot) :
           LET old == agent.snapshot[j]
               young == agent.snapshot[k]
           IN  /\ ~old.completed /\ old.due_date.kind = "none"
               /\ \E e \in ItemsOf(agent.tasks_to_delete, old.id) :
                      agent.tasks_to_delete[e].reason = Reason("untouched", 11, FALSE)
               /\ ~Kept(old.id)
               /\ ~young.completed /\ young.due_date.kind = "none"
               /\ now - young.created_at.at = 2 * SecondsPerDay
               /\ Classified(young.id) = {}
               /\ Kept(young.id)

\* C26: a folder is deleted by a cleanup run only if, the task deletions of
\* the run done, no task references it and it was created more than ten days
\* ago; and every such folder the run has examined is deleted, unless the
\* store refused its deletion.
C26_FolderReclaimed ==
    \A j \in 1..Len(agent.listed) :
        LET folder == agent.listed[j]
            referenced == \E k \in 1..Len(tasks) : tasks[k].folder = folder.id
            stale == now - folder.created_at.at > cleanup_stale_days * SecondsPerDay
            examined == agent.pc = "done" \/ (agent.pc = "folders" /\ j < agent.i)
        IN  /\ Gone(folder) => (~referenced /\ stale)
            /\ (examined /\ ~referenced /\ stale /\ folder.id \notin agent.failed_folders)
                   => Gone(folder)

\* a finished run that deleted every task of folder f1 and then the folder,
\* and kept the empty folder f2 created three days ago
C26_Witness ==
    /\ agent.pc = "done"
    /\ Len(agent.snapshot) > 0 /\ tasks = <<>>
    /\ \E j, k \in 1..Len(agent.listed) :
           /\ agent.listed[j].id = "f1" /\ Gone(agent.listed[j])
           /\ agent.listed[k].id = "f2" /\ ~Gone(agent.listed[k])
           /\ now - agent.listed[k].created_at.at = 3 * SecondsPerDay

\* C27: when the deletion of a task or of a folder has failed in a run, the
\* finished run has still deleted every other task of the delete list, stored
\* the warning of every escalation whose write succeeded, and deleted every
\* other empty folder older than ten days.
C27_BestEffort ==
    (agent.pc = "done" /\ (agent.failed_tasks # {} \/ agent.failed_folders # {})) =>
        /\ \A j \in 1..Len(agent.tasks_to_delete) :
               LET id == agent.tasks_to_delete[j].task.id IN
               id \notin agent.failed_tasks => ~Kept(id)
        /\ \A j \in 1..Len(agent.high_priority_stale_tasks) :
               LET id == agent.high_priority_stale_tasks[j].task.id IN
               id \notin agent.failed_insights => Cardinality(WarningsOf(id)) = 1
        /\ \A j \in 1..Len(agent.listed) :
               LET folder == agent.listed[j] IN
               (/\ FolderEmpty(folder, tasks)
                /\ now - folder.created_at.at > cleanup_stale_days * SecondsPerDay
                /\ folder.id \notin agent.failed_folders) => Gone(folder)

\* a finished run in which the deletion of the first task failed, the second
\* task was deleted and the empty folder f2 was reclaimed
C27_Witness ==
    /\ agent.pc = "done"
    /\ Len(agent.tasks_to_delete) = 2
    /\ agent.failed_tasks = {agent.tasks_to_delete[1].task.id}
    /\ ~Kept(agent.tasks_to_delete[2].task.id)
    /\ Kept(agent.tasks_to_delete[1].task.id)
    /\ \E j \in 1..Len(agent.listed) :
           agent.listed[j].id = "f2" /\ Gone(agent.listed[j])

\* C28: a pass of the monitor loop leaves its users and leaves its cleanup
\* only when every monitored user has had its cycle, whatever failed in the
\* cycle of one of them.
C28_FailureIsolated ==
    [][ /\ (loop.phase = "users" /\ loop'.phase # "users")
            => loop.k > Len(monitored_users)
        /\ (loop.phase = "cleanup" /\ loop'.phase # "cleanup")
            => loop.k > Len(monitored_users) ]_vars

\* C29: a monitor cycle in which a generator raised has still evaluated an
\* insight of the other generators for admission (the folder insight is built
\* whenever there are tasks).
C29_GeneratorIsolated ==
    \A s \in Slots :
        (/\ run[s].pc = "done"
         /\ \E j \in 1..Len(run[s].trace) :
                run[s].trace[j].op = "raise" /\ run[s].trace[j].text = "generator")
            => \E j \in 1..Len(run[s].trace) : run[s].trace[j].op = "should_send_now"

\* C30: check_stale_tasks yields one stale_task_warning of priority medium
\* when an incomplete task of the snapshot was created more than three days
\* before now, and nothing otherwise; its count is the number of those tasks
\* and its list holds the first three of them, or all when fewer, in snapshot
\* order; tasks without a readable created_at are passed over.
C30_StaleWarning ==
    agent.pc = "generated" =>
        LET stale == SelectSeq(tasks, LAMBDA task :
                         ~task.completed /\ CreatedBefore(task, now, monitor_stale_days))
            shown == IF Len(stale) < 3 THEN Len(stale) ELSE 3
        IN  IF stale = <<>> THEN insights = <<>>
            ELSE /\ Len(insights) = 1
                 /\ insights[1].type = "stale_task_warning"
                 /\ insights[1].priority = "medium"
                 /\ insights[1].count = Len(stale)
                 /\ Len(insights[1].tasks) = shown
                 /\ \A e \in 1..shown :
                        /\ insights[1].tasks[e].task_id = stale[e].id
                        /\ insights[1].tasks[e].days_old =
                               (now - stale[e].created_at.at) \div SecondsPerDay

\* a snapshot that starts with a task whose created_at is no date, followed
\* by four stale tasks: the warning counts four and lists the first three
C30_Witness ==
    /\ agent.pc = "generated"
    /\ Len(tasks) = 5
    /\ tasks[1].created_at.kind = "string" /\ ~tasks[1].created_at.parseable
    /\ Len(insights) = 1
    /\ insights[1].count = 4
    /\ Len(insights[1].tasks) = 3
    /\ insights[1].tasks[1].task_id = 2
    /\ insights[1].tasks[3].task_id = 4

---------------------------------------------------------------------------
(* The user's own clock: the zone of the profile against the server's      *)
(***************************************************************************)

\* how far the zone of the user's profile is ahead of the server's, in
\* seconds: the same zone, and Asia/Kolkata on a server running on UTC
UserZones == {0, At(0, 5, 30, 0)}

\* dt_utc.astimezone(_get_tz(user_timezone))
_to_local(t, zone) == t + zone

\* C31: the hour tested against [22, 7) and the date compared with last_reset
\* are the hour and the date of the user's own zone: whatever that zone is, a
\* low or medium insight asked while it is between 22:00 and 7:00 there is
\* not admitted, and after the call last_reset is the user's calendar date.
C31_LocalQuietHours ==
    \A zone \in UserZones :
        Asked =>
            /\ (HourOf(_to_local(now, zone)) \in QuietHourSet /\ AskedRoutine)
                   => ~last.answer.send
            /\ state.last_reset = DateOf(_to_local(now, zone))

\* created_at is missing, or is not a timestamp value
NotAged(task) == task.created_at.kind # "timestamp"

\* C32: an incomplete task whose created_at is missing or is not a timestamp
\* is passed over by the cleanup run: it is on neither list, it stays in the
\* collection and no warning is stored for it, even when its due date has
\* passed.
C32_UndatedSkipped ==
    \A j \in 1..Len(agent.snapshot) :
        LET task == agent.snapshot[j] IN
        (~task.completed /\ NotAged(task)) =>
            /\ Kept(task.id)
            /\ Classified(task.id) = {}
            /\ WarningsOf(task.id) = {}

\* a finished run that deleted a task and left one that is not high priority
\* and overdue since yesterday, its created_at a string of eleven days ago
C32_Witness ==
    /\ agent.pc = "done"
    /\ Len(tasks) < Len(agent.snapshot)
    /\ \E j \in 1..Len(agent.snapshot) :
           LET task == agent.snapshot[j] IN
           /\ ~task.completed /\ ~task.is_high_priority
           /\ task.created_at.kind = "string"
           /\ PastDue(task, now)
           /\ Kept(task.id)

---------------------------------------------------------------------------
(* What the claims speak of, read off the writes of the insights *)

\* the cycle r made the call op on its insight i
Called(r, op, i) == \E k \in 1..Len(r.trace) : r.trace[k].op = op /\ r.trace[k].i = i

\* the insight write or the emit raised on insight i of the cycle r
FailedOn(r, i) == Called(r, "abort", i)

\* C33: when the write or the emit of one insight of a monitor batch raises,
\* every other insight of the batch is still written to the insights
\* collection and still evaluated by should_send_now in that cycle.
C33_InsightErrorIsolated ==
    \A s \in Slots :
        LET r == run[s] IN
        (r.kind = "monitor" /\ r.pc = "done" /\ \E i \in 1..Len(r.batch) : FailedOn(r, i))
            => \A i \in 1..Len(r.batch) :
                   ~FailedOn(r, i) => Called(r, "set", i) /\ Called(r, "should_send_now", i)

\* the insights of the cycle r that were written to the insights collection
Persisted(r) == {i \in 1..Len(r.batch) : Called(r, "set", i)}

\* the cycle r ended without an exception
Completed(r) ==
    /\ r.kind = "monitor" /\ r.pc = "done"
    /\ \A k \in 1..Len(r.trace) : r.trace[k].op \notin {"abort", "raise"}

\* the step is a should_send_now of thread s that answered False
Denies(s) ==
    /\ StepOp(s) = "should_send_now"
    /\ ~run'[s].trace[Len(run'[s].trace)].send

\* the step neither starts a notification nor touches the last send and the
\* history of thread s
NothingSent(s) ==
    /\ run'[s].pc \in {"save", "done"}
    /\ run'[s].state.last_notification_time = run[s].state.last_notification_time
    /\ run'[s].state.notification_history = run[s].state.notification_history
    /\ sendlog' = sendlog

\* the write comes before the decision, and a cycle without an exception has
\* written all it generated
WrittenFirst(s) ==
    /\ StepOp(s) = "should_send_now" => Called(run[s], "set", run[s].i)
    /\ Completed(run'[s]) => Cardinality(Persisted(run'[s])) = Len(run'[s].batch)

C35_WeeklyCleanupOnce ==
    /\ \A j \in 1..Len(loop.cleanups) :
           /\ weekday(loop.cleanups[j]) = 6
           /\ HourOf(loop.cleanups[j]) \in {20, 21}
    /\ \A j, k \in 1..Len(loop.cleanups) :
           j # k => DateOf(loop.cleanups[j]) # DateOf(loop.cleanups[k])

\* the second tick of a Sunday evening, at 20:45, has tested the schedule and
\* gone to sleep: the only cleanup of the day is the one of the first tick
C35_Witness ==
    /\ loop.passes = 2 /\ loop.phase = "sleep"
    /\ weekday(now) = 6 /\ HourOf(now) = 20
    /\ Len(loop.cleanups) = 1
    /\ DateOf(loop.cleanups[1]) = DateOf(now)
    /\ now - loop.cleanups[1] >= check_interval

---------------------------------------------------------------------------
(* The user's answer to an escalation, tools/cleanup_actions.py, and the    *)
(* cleanup of the week after                                                *)

\* answers the user gives, and weeks the cleanup comes back
MaxAnswers == 1
MaxWeeks == 1

\* action in ['delete', 'remove'] / ['complete', 'done', 'finish'] /
\* ['keep', 'save', 'ignore', 'leave']
Actions == {"delete", "complete", "keep"}

\* what the action does to the tasks collection: delete_task,
\* mark_task_complete, or nothing for 'keep'
Resolved(collection, action, id) ==
    IF action = "delete" THEN SelectSeq(collection, LAMBDA task : task.id # id)
    ELSE IF action = "complete"
         THEN [j \in 1..Len(collection) |->
                  IF collection[j].id = id THEN [collection[j] EXCEPT !.completed = TRUE]
                                           ELSE collection[j]]
    ELSE collection

\* handle_cleanup_action(action, task_name, insight_id) on the task of the
\* stored warning j, between two cleanup runs; resolutions lists the answers
\* with the number of insights stored when each was given.  The update of
\* monitor_insights/{insight_id} is made on the top-level collection, where
\* the user's insights are not, and its failure is passed over
HandleCleanupAction(action, j) ==
    /\ agent.pc = "done"
    /\ Len(agent.resolutions) < MaxAnswers
    /\ j \in 1..Len(insights)
    /\ insights[j].type = "high_priority_stale_warning"
    /\ Kept(insights[j].task_id)
    /\ tasks' = Resolved(tasks, action, insights[j].task_id)
    /\ agent' = [agent EXCEPT !.resolutions =
                    Append(@, [action |-> action, task_id |-> insights[j].task_id,
                               seen |-> Len(insights)])]
    /\ UNCHANGED <<folders, insights>>
    /\ UNCHANGED <<now, store_ok>>
    /\ UNCHANGED mvars
    /\ UNCHANGED svars

\* the Sunday after: a new CleanupAgent for the same user
NextWeek ==
    /\ agent.pc = "done"
    /\ now < CleanupStart + MaxWeeks * DaysPerWeek * SecondsPerDay
    /\ now' = now + DaysPerWeek * SecondsPerDay
    /\ agent' = [IdleAgent EXCEPT !.resolutions = agent.resolutions]
    /\ UNCHANGED <<tasks, folders, insights, store_ok>>
    /\ UNCHANGED mvars
    /\ UNCHANGED svars

\* incomplete tasks without due date, two days or more than eleven days old
ResolveKinds(t) ==
    [completed : {FALSE}, is_high_priority : BOOLEAN, due_date : {NoValue},
     created_at : {Stamp(t - Young), Stamp(t - Old)}]

InitResolve ==
    \E n \in 1..MaxTasks :
        \E kinds \in [1..n -> ResolveKinds(CleanupStart)] :
            /\ now = CleanupStart
            /\ tasks = Collection(kinds)
            /\ folders = FoldersAt(CleanupStart, Old)
            /\ agent = IdleAgent
            /\ insights = <<>>
            /\ store_ok = TRUE
            /\ NoManager
            /\ NoService

NextResolve ==
    \/ Run
    \/ \E ok \in BOOLEAN : DeleteTask(ok)
    \/ \E ok \in BOOLEAN : GenerateInsight(ok)
    \/ \E ok \in BOOLEAN : CleanupFolder(ok)
    \/ \E action \in Actions : \E j \in 1..Len(insights) : HandleCleanupAction(action, j)
    \/ NextWeek

SpecResolve == InitResolve /\ [][NextResolve]_vars

\* C36: once the user has answered 'keep' for a task, no cleanup run stores a
\* further high_priority_stale_warning for it.
C36_KeepIsFinal ==
    \A k \in 1..Len(agent.resolutions) :
        LET answer == agent.resolutions[k] IN
        answer.action = "keep" =>
            \A j \in (answer.seen + 1)..Len(insights) :
                ~(/\ insights[j].type = "high_priority_stale_warning"
                  /\ insights[j].task_id = answer.task_id)

---------------------------------------------------------------------------
(* Monitor cycles of one user, one after the other, a chosen time apart *)

\* cycles in a run
MaxRepeats == 2
\* what the generators yield, the same in every cycle
RepeatBatches == { <<PriorityAlert>>, <<PriorityAlert, LowFocus>> }
\* from the end of a cycle to the start of the next: a tick of the loop, a
\* minute less than 24 hours, and 24 hours
RepeatGaps == { check_interval, SecondsPerDay - SecondsPerMinute, SecondsPerDay }

InitRepeat ==
    /\ now = At(1, 8, 0, 0)
    /\ store = [u \in Users |-> <<>>]
    /\ sendlog = [u \in Users |-> <<>>]
    /\ run = [s \in Slots |-> IdleCycle]
    /\ loop = LoopOff
    /\ store_ok \in BOOLEAN
    /\ NoManager
    /\ NoLifecycle

\* the next monitor.run(user_id, user_timezone, socketio) of the user, gap
\* seconds after the last one returned
StartRepeat(gap) ==
    /\ AllIdle
    /\ loop.passes < MaxRepeats
    /\ now' = IF loop.passes = 0 THEN now ELSE now + gap
    /\ run' = [run EXCEPT !["w1"] = MonitorCycle("u1", "scheduled", TRUE)]
    /\ loop' = [loop EXCEPT !.passes = @ + 1]
    /\ UNCHANGED <<store_ok, store, sendlog>>
    /\ UNCHANGED mvars
    /\ UNCHANGED cvars

NextRepeat ==
    \/ \E gap \in RepeatGaps : StartRepeat(gap)
    \/ \E s \in Slots, readable \in BOOLEAN : Load(s, readable)
    \/ \E s \in Slots, b \in RepeatBatches : Tasks(s, b)
    \/ \E s \in Slots : Save(s)
    \/ \E s \in Slots : Evaluate(s)
    \/ \E s \in Slots, d \in LlmSeconds : Llm(s, d)
    \/ \E s \in Slots : Emit(s)
    \/ \E s \in Slots : Abort(s)
    \/ \E s \in Slots : Record(s)
    \/ \E s \in Slots : Return(s)

SpecRepeat == InitRepeat /\ [][NextRepeat]_vars

\* the window of the duplicate rule, in seconds
DuplicateWindow == duplicate_window_hours * SecondsPerHour

\* C37: any two sends recorded for one user with the same insight type, other
\* than critical ones, are at least 24 hours apart; a priority_alert is not
\* recorded twice within 24 hours.
C37_SameTypeDayApart ==
    \A u \in Users :
        \A j, k \in 1..Len(sendlog[u]) :
            (/\ j < k
             /\ sendlog[u][j].entry.type = sendlog[u][k].entry.type
             /\ sendlog[u][k].entry.priority # "critical")
                => sendlog[u][k].at - sendlog[u][j].at >= DuplicateWindow

---------------------------------------------------------------------------
(* start() and stop() of MonitorService, and the greenthreads start() has   *)
(* spawned: each runs _monitor_loop and gives way to the others where it    *)
(* waits, at tpool.execute and at eventlet.sleep                            *)

\* calls of start() and stop()
MaxCalls == 4

\* eventlet.spawn(self._monitor_loop): the greenthread has not run yet
Spawned == [pc |-> "spawned", k |-> 0]

\* start(): nothing when self.running; else the flag is set and a greenthread
\* is spawned
ServiceStart ==
    /\ loop.calls < MaxCalls
    /\ loop' = IF loop.running
               THEN [loop EXCEPT !.calls = @ + 1]
               ELSE [loop EXCEPT !.calls = @ + 1, !.running = TRUE,
                                 !.greenthreads = Append(@, Spawned)]
    /\ UNCHANGED <<now, store_ok, store, sendlog, run>>
    /\ UNCHANGED mvars
    /\ UNCHANGED cvars

\* stop(): self.running = False
ServiceStop ==
    /\ loop.calls < MaxCalls
    /\ loop' = [loop EXCEPT !.calls = @ + 1, !.running = FALSE]
    /\ UNCHANGED <<now, store_ok, store, sendlog, run>>
    /\ UNCHANGED mvars
    /\ UNCHANGED cvars

\* while self.running: the greenthread g starts a pass over the users, or
\* leaves _monitor_loop
LoopWhile(g) ==
    /\ g \in 1..Len(loop.greenthreads)
    /\ loop.greenthreads[g].pc \in {"spawned", "while"}
    /\ loop' = [loop EXCEPT !.greenthreads[g] =
                   IF loop.running THEN [pc |-> "users", k |-> 1]
                                   ELSE [pc |-> "exited", k |-> 0]]
    /\ UNCHANGED <<now, store_ok, store, sendlog, run>>
    /\ UNCHANGED mvars
    /\ UNCHANGED cvars

\* for user_id in self.monitored_users: the check of one user has returned to
\* the greenthread g; after the last one and _check_cleanup_schedule it sleeps
LoopUser(g) ==
    /\ g \in 1..Len(loop.greenthreads)
    /\ loop.greenthreads[g].pc = "users"
    /\ loop' = [loop EXCEPT !.greenthreads[g] =
                   IF loop.greenthreads[g].k < Len(monitored_users)
                   THEN [pc |-> "users", k |-> loop.greenthreads[g].k + 1]
                   ELSE [pc |-> "sleep", k |-> 0]]
    /\ UNCHANGED <<now, store_ok, store, sendlog, run>>
    /\ UNCHANGED mvars
    /\ UNCHANGED cvars

\* for _ in range(self.check_interval): the greenthread g wakes with
\* self.running False and breaks, or has slept its last second
LoopSleep(g) ==
    /\ g \in 1..Len(loop.greenthreads)
    /\ loop.greenthreads[g].pc = "sleep"
    /\ loop' = [loop EXCEPT !.greenthreads[g] = [pc |-> "while", k |-> 0]]
    /\ UNCHANGED <<now, store_ok, store, sendlog, run>>
    /\ UNCHANGED mvars
    /\ UNCHANGED cvars

\* MonitorService(check_interval=1800): not started
InitLoops ==
    /\ now = At(1, 8, 0, 0)
    /\ store = [u \in Users |-> <<>>]
    /\ sendlog = [u \in Users |-> <<>>]
    /\ run = [s \in Slots |-> IdleCycle]
    /\ loop = LoopOff
    /\ store_ok = TRUE
    /\ NoManager
    /\ NoLifecycle

NextLoops ==
    \/ ServiceStart
    \/ ServiceStop
    \/ \E g \in 1..MaxCalls : LoopWhile(g)
    \/ \E g \in 1..MaxCalls : LoopUser(g)
    \/ \E g \in 1..MaxCalls : LoopSleep(g)

SpecLoops == InitLoops /\ [][NextLoops]_vars

\* the greenthreads that are in _monitor_loop or about to enter it
ActiveLoops == {g \in 1..Len(loop.greenthreads) : loop.greenthreads[g].pc # "exited"}

\* C38: whatever start() and stop() calls are made, at most one greenthread
\* is in _monitor_loop, so no monitored user is checked by two loops.
C38_OneMonitorLoop == Cardinality(ActiveLoops) <= 1

====
